---- MODULE Spec2Model ----
(***************************************************************************)
(* Model of the tool servers of openai-cli-client:                         *)
(*   - FilesystemServer (path sandbox, allowed-directory management,       *)
(*     configuration sidecar),                                             *)
(*   - ComprehensiveFilesystemMemoryServer (filesystem tools with the      *)
(*     built-in knowledge graph and the filesystem-to-graph bridge),       *)
(*   - FilesystemServerWithMemory (filesystem tools with a MemoryClient),  *)
(*   - MemoryServer (the stand-alone knowledge graph store).               *)
(*                                                                         *)
(* A path string is a sequence of one-character strings; a path is also    *)
(* carried as its sequence of segments, each segment a sequence of         *)
(* characters, so that String.startsWith is a prefix test on characters    *)
(* and "nested under" is a prefix test on segments.                        *)
(***************************************************************************)
EXTENDS Integers, Sequences, FiniteSets, TLC

(***************************************************************************)
(* Bounds                                                                  *)
(***************************************************************************)
MaxSegs == 2        \* raw segments of a path given to a file tool
MaxDirSegs == 1     \* raw segments of a path given to add/remove_allowed_directory
MaxArgs == 2        \* directories on the command line
MaxSidecar == 1     \* directories in the configuration sidecar at startup

(***************************************************************************)
(* Path strings                                                            *)
(***************************************************************************)
SegA == <<"a">>
SegAB == <<"a", "b">>
SegF == <<"f">>
SegL == <<"l">>
Dot == <<".">>
DotDot == <<".", ".">>

\* the raw segments a caller may write between slashes
Tokens == {SegA, SegAB, SegF, SegL, Dot, DotDot}

SeqsUpTo(S, n) == UNION {[1..k -> S] : k \in 0..n}

\* absolute raw paths "/t1/t2/..." of at most n segments ("/" when empty)
PathInputs(n) == SeqsUpTo(Tokens, n)

\* the raw paths given to add_allowed_directory and remove_allowed_directory
DirInputs == SeqsUpTo({SegA, SegAB, SegF, DotDot}, MaxDirSegs)

RECURSIVE PathStr(_)
\* the string of an absolute path: "/" followed by the segments joined by "/"
PathStr(segs) ==
  IF segs = <<>> THEN <<"/">>
  ELSE IF Len(segs) = 1 THEN <<"/">> \o segs[1]
  ELSE PathStr(SubSeq(segs, 1, Len(segs) - 1)) \o <<"/">> \o segs[Len(segs)]

RECURSIVE Normalize(_, _)
\* path.resolve on an absolute path: "." is dropped, ".." removes the last
\* kept segment (and is dropped at the root)
Normalize(toks, acc) ==
  IF toks = <<>> THEN acc
  ELSE LET t == Head(toks) IN
       IF t = Dot THEN Normalize(Tail(toks), acc)
       ELSE IF t = DotDot
            THEN Normalize(Tail(toks),
                           IF acc = <<>> THEN acc ELSE SubSeq(acc, 1, Len(acc) - 1))
            ELSE Normalize(Tail(toks), Append(acc, t))

Resolve(toks) == Normalize(toks, <<>>)

\* String.prototype.startsWith
StartsWith(s, p) == Len(p) <= Len(s) /\ SubSeq(s, 1, Len(p)) = p

\* path.dirname on a raw path (no normalisation)
Dirname(toks) == IF toks = <<>> THEN <<>> ELSE SubSeq(toks, 1, Len(toks) - 1)

\* equal to dir or below it by whole segments
NestedUnder(p, dir) == Len(dir) <= Len(p) /\ SubSeq(p, 1, Len(dir)) = dir

Range(s) == {s[i] : i \in 1..Len(s)}

NoDuplicates(s) == \A i, j \in 1..Len(s) : s[i] = s[j] => i = j

RECURSIVE Dedupe(_, _)
\* [...new Set(list)]: first occurrences, in order
Dedupe(list, acc) ==
  IF list = <<>> THEN acc
  ELSE Dedupe(Tail(list),
              IF Head(list) \in Range(acc) THEN acc ELSE Append(acc, Head(list)))

(***************************************************************************)
(* The disk: directories /, /a, /ab; files /a/f, /ab/f; /ab/l is a         *)
(* symbolic link to /a/f.                                                  *)
(***************************************************************************)
DirsOnDisk == {<<>>, <<SegA>>, <<SegAB>>}
FilesOnDisk == {<<SegA, SegF>>, <<SegAB, SegF>>}
LinkPath == <<SegAB, SegL>>
LinkTarget == <<SegA, SegF>>

RECURSIVE FollowLinks(_, _)
\* the object the operating system reaches for a resolved path
FollowLinks(segs, cur) ==
  IF segs = <<>> THEN cur
  ELSE LET nxt == Append(cur, Head(segs)) IN
       FollowLinks(Tail(segs), IF nxt = LinkPath THEN LinkTarget ELSE nxt)

RealPath(p) == FollowLinks(p, <<>>)

\* fs.stat (follows links)
Stat(p) ==
  IF RealPath(p) \in DirsOnDisk THEN "dir"
  ELSE IF RealPath(p) \in FilesOnDisk THEN "file"
  ELSE "none"

(***************************************************************************)
(* State                                                                   *)
(***************************************************************************)
VARIABLES
  allowedDirectories,  \* this.allowedDirectories: sequence of resolved paths
  configFile,          \* the sidecar: Absent or its allowedDirectories array
  loadState,           \* constructor's loadConfiguration(): pending, read, done
  loadBuf,             \* what loadConfiguration's readFile returned
  lastCall,            \* the most recent tool call and its result
  startupLog,          \* log of the startup: constructor arguments, sidecar at
                       \* startup, and the allowed list the first tool call saw
  msGraph,             \* MemoryServer.memoryGraph.entities, in key order
  cfGraph,             \* ComprehensiveFilesystemMemoryServer.memoryGraph.entities
  graphCall,           \* the most recent graph tool call and its result
  isInitialized,       \* ComprehensiveFilesystemMemoryServer.isInitialized
  graphFile,           \* the memory file: NoFile or the graph last written
  now,                 \* the clock, in days
  calls,               \* tool calls handled so far by the composite server
  bridgeLog,           \* the graph at the start of the most recent tool call
                       \* and after its ensureInitialized
  memoryEnabled,       \* FilesystemServerWithMemory.memoryEnabled
  memoryUp,            \* the memory server process answers the MemoryClient
  msFile,              \* the memory file of a stand-alone MemoryServer
  msInitialized,       \* MemoryServer.isInitialized
  searchLog,           \* the most recent search_nodes call and its results
  accessLog,           \* the file accesses the bridge has remembered
  fileText,            \* the text of the file /a/f on the disk
  editLog,             \* the most recent edit_file call and what it reported
  mcpClient,           \* the fields of an MCPClient and of the MemoryClient
                       \* that owns it
  clientLog,           \* the most recent call on the clients and its outcome
  inflight,            \* the tool calls a graph server is handling: for each
                       \* its server, its position, its request and what its
                       \* readFile returned
  raceLog              \* loads of the memory file so far, per server

fsVars == <<allowedDirectories, configFile, loadState, loadBuf, lastCall,
            startupLog>>

graphVars == <<msGraph, cfGraph, graphCall>>

compVars == <<isInitialized, graphFile, now, calls, bridgeLog, memoryEnabled,
              memoryUp>>

editVars == <<fileText, editLog>>

clientVars == <<mcpClient, clientLog>>

raceVars == <<inflight, raceLog>>

restVars == <<clientVars, raceVars>>

laterVars == <<accessLog, editVars, restVars>>

storeVars == <<msFile, msInitialized, searchLog, laterVars>>

vars == <<fsVars, graphVars, compVars, storeVars>>

\* a sidecar that is missing or is not valid JSON
Absent == [exists |-> FALSE, dirs |-> <<>>]

\* a sidecar holding {allowedDirectories: dirs}
Sidecar(dirs) == [exists |-> TRUE, dirs |-> dirs]

\* no startup log is kept
NoLog == [on |-> FALSE, ctorDirs |-> <<>>, sidecar0 |-> Absent, seen |-> FALSE,
          list |-> <<>>]

\* a tool call and its result: the tool, its resolved path argument, the
\* result's isError flag and message, the allowed list before and after the
\* call, and the objects on disk the call reached
NoCall == [op |-> "none", arg |-> <<>>, isError |-> FALSE, text |-> "",
           before |-> <<>>, after |-> <<>>, touched |-> {}]

Call(op, arg, isError, text, before, after, touched) ==
  [op |-> op, arg |-> arg, isError |-> isError, text |-> text,
   before |-> before, after |-> after, touched |-> touched]

\* the handler of CallToolRequestSchema starts: log what the first call sees
NoteCall ==
  startupLog' = IF startupLog.on /\ ~startupLog.seen
                THEN [startupLog EXCEPT !.seen = TRUE, !.list = allowedDirectories]
                ELSE startupLog

(***************************************************************************)
(* FilesystemServer: construction                                          *)
(***************************************************************************)
\* what the command line may name: /a, /ab and /a/. (another spelling of /a)
ArgPaths == {<<SegA>>, <<SegAB>>, <<SegA, Dot>>}

\* main(): at least one directory on the command line
CommandLines == SeqsUpTo(ArgPaths, MaxArgs) \ {<<>>}

Sidecars == {Absent} \cup {Sidecar(d) : d \in SeqsUpTo({<<SegA>>, <<SegAB>>}, MaxSidecar)}

\* constructor: allowedDirectories.map(dir => path.resolve(dir))
ConstructorDirs(args) == [i \in 1..Len(args) |-> Resolve(args[i])]

\* new FilesystemServer(allowedDirectories, configFilePath)
Constructed ==
  /\ \E args \in CommandLines : allowedDirectories = ConstructorDirs(args)
  /\ configFile \in Sidecars
  /\ loadState = "pending"
  /\ loadBuf = Absent
  /\ lastCall = NoCall

\* the result of a graph tool: whether its text reports a failure, its
\* isError flag, and the count its text reports (0 when it reports none)
GraphResult(failed, isError, count) ==
  [failed |-> failed, isError |-> isError, count |-> count]

Succeeded == GraphResult(FALSE, FALSE, 0)

\* what a graph tool call did with the memory file: whether it was the first
\* call of the process, whether the file was missing or unparsable when the
\* call arrived, the graph each server had after loadMemoryGraph, and whether
\* a write of the file failed during the call
StoreLog(first, missing, msLoaded, cfLoaded, saveFailed) ==
  [first |-> first, missing |-> missing, msLoaded |-> msLoaded,
   cfLoaded |-> cfLoaded, saveFailed |-> saveFailed]

NoStoreLog == StoreLog(FALSE, FALSE, <<>>, <<>>, FALSE)

NoGraphCall == [op |-> "none", name |-> <<>>, observations |-> <<>>,
                repeated |-> FALSE, existed |-> FALSE,
                msBefore |-> <<>>, msAfter |-> <<>>,
                cfBefore |-> <<>>, cfAfter |-> <<>>,
                ms |-> Succeeded, cf |-> Succeeded, relations |-> <<>>,
                store |-> NoStoreLog]

\* a memory file that is missing or is not valid JSON
NoFile == [exists |-> FALSE, entities |-> <<>>]

MemoryFile(g) == [exists |-> TRUE, entities |-> g]

\* no search_nodes call yet
NoSearch == [searched |-> FALSE, query |-> <<>>, ms |-> <<>>, cf |-> <<>>]

\* no file access remembered yet
NoAccess == [touched |-> <<>>, cfBefore |-> <<>>, msBefore |-> <<>>]

\* no edit_file call yet
NoEdit == [server |-> "none", dryRun |-> FALSE, first |-> FALSE, edits |-> <<>>,
           textBefore |-> <<>>, graphBefore |-> <<>>, graphAfterInit |-> <<>>,
           original |-> 0, modified |-> 0]

\* new MemoryClient(): client = null, transport = null, tools = [],
\* isConnected = false; live says whether the Client object, if any, has a
\* working connection to its server
NewClient == [client |-> FALSE, transport |-> FALSE, live |-> FALSE,
              tools |-> FALSE, isConnected |-> FALSE]

\* no call on the clients yet
NoClientCall == [op |-> "none", threw |-> FALSE, text |-> "", returned |-> FALSE,
                 lastConnect |-> "none", disconnected |-> FALSE, connects |-> 0]

MaxInflight == 2    \* tool calls a graph server handles at the same time

\* a call slot that holds no call
Idle == [server |-> "none", pc |-> "idle", name |-> <<>>, buf |-> NoFile]

NoCalls == [c \in 1..MaxInflight |-> Idle]

\* no load of a memory file yet and no tool has changed a graph
NoRace == [msLoads |-> 0, cfLoads |-> 0, msMutated |-> FALSE,
           cfMutated |-> FALSE, lateLoad |-> FALSE]

NoLater ==
  /\ accessLog = NoAccess
  /\ fileText = <<"c">>
  /\ editLog = NoEdit
  /\ mcpClient = NewClient
  /\ clientLog = NoClientCall
  /\ inflight = NoCalls
  /\ raceLog = NoRace

\* no graph store has handled a call: the state of MemoryServer and of the
\* composite server's graph before their first tool call
NoMemoryServer ==
  /\ NoLater
  /\ searchLog = NoSearch
  /\ msGraph = <<>>
  /\ cfGraph = <<>>
  /\ graphCall = NoGraphCall
  /\ msFile = NoFile
  /\ msInitialized = FALSE

\* what a tool call of a server with a graph did to the graph: the raw path
\* argument, the graph when the call arrived (as persisted, before the first
\* load), the graph after ensureInitialized, whether the call's own effect
\* (validation and operating-system call, or list change and sidecar write)
\* succeeded, and whether the memory subsystem failed during the call
NoBridgeLog == [path |-> <<>>, before |-> <<>>, afterInit |-> <<>>,
                primaryOk |-> FALSE, fault |-> FALSE]

BridgeLog(rawPath, before, afterInit, primaryOk, fault) ==
  [path |-> rawPath, before |-> before, afterInit |-> afterInit,
   primaryOk |-> primaryOk, fault |-> fault]

\* the plain filesystem server has no graph, memory file or bridge
NoComposite ==
  /\ isInitialized = FALSE
  /\ graphFile = NoFile
  /\ now = 0
  /\ calls = 0
  /\ bridgeLog = NoBridgeLog
  /\ memoryEnabled = FALSE
  /\ memoryUp = FALSE

Init == Constructed /\ startupLog = NoLog /\ NoMemoryServer /\ NoComposite

(***************************************************************************)
(* FilesystemServer.loadConfiguration: the constructor starts it and does  *)
(* not await it.  readFile completes at some point (LoadRead); the merge   *)
(* runs when the continuation is scheduled (LoadMerge).                    *)
(***************************************************************************)
LoadRead ==
  /\ loadState = "pending"
  /\ loadBuf' = configFile
  /\ loadState' = "read"
  /\ UNCHANGED <<allowedDirectories, configFile, lastCall, startupLog, graphVars, storeVars, compVars>>

\* [...new Set([...this.allowedDirectories, ...config.allowedDirectories].map(resolve))]
MergeConfiguration(current, loaded) == Dedupe(current \o loaded, <<>>)

LoadMerge ==
  /\ loadState = "read"
  /\ allowedDirectories' =
       IF loadBuf.exists
       THEN MergeConfiguration(allowedDirectories, loadBuf.dirs)
       ELSE allowedDirectories
  /\ loadState' = "done"
  /\ loadBuf' = Absent
  /\ UNCHANGED <<configFile, lastCall, startupLog, graphVars, storeVars, compVars>>

(***************************************************************************)
(* FilesystemServer: directory management tools                            *)
(***************************************************************************)
ListAllowedDirectories ==
  /\ NoteCall
  /\ lastCall' = Call("list_allowed_directories", <<>>, FALSE,
                      "listed", allowedDirectories, allowedDirectories, {})
  /\ UNCHANGED <<allowedDirectories, configFile, loadState, loadBuf, graphVars, storeVars, compVars>>

\* saveConfiguration, when the write succeeds: the sidecar holds the list
SaveConfiguration(list) == Sidecar(list)

AlreadyAllowed_Never(list, resolvedPath) == FALSE
\* this.allowedDirectories.includes(resolvedPath)
AlreadyAllowed(list, resolvedPath) == resolvedPath \in Range(list)

AddAllowedDirectory(dirPath) ==
  LET resolvedPath == Resolve(dirPath)
      pushed == Append(allowedDirectories, resolvedPath)
  IN
  /\ NoteCall
  /\ IF Stat(resolvedPath) # "dir"
     THEN /\ lastCall' = Call("add_allowed_directory", resolvedPath, TRUE,
                              "does not exist", allowedDirectories,
                              allowedDirectories, {})
          /\ UNCHANGED <<allowedDirectories, configFile>>
     ELSE IF AlreadyAllowed(allowedDirectories, resolvedPath)
     THEN /\ lastCall' = Call("add_allowed_directory", resolvedPath, FALSE,
                              "already in list", allowedDirectories,
                              allowedDirectories, {})
          /\ UNCHANGED <<allowedDirectories, configFile>>
     ELSE \/ /\ allowedDirectories' = pushed
             /\ configFile' = SaveConfiguration(pushed)
             /\ lastCall' = Call("add_allowed_directory", resolvedPath, FALSE,
                                 "added", allowedDirectories, pushed, {})
          \* saveConfiguration throws
          \/ /\ allowedDirectories' = pushed
             /\ configFile' = configFile
             /\ lastCall' = Call("add_allowed_directory", resolvedPath, TRUE,
                                 "save failed", allowedDirectories, pushed, {})
  /\ UNCHANGED <<loadState, loadBuf, graphVars, storeVars, compVars>>

\* this.allowedDirectories.filter(dir => dir !== resolvedPath)
FilterOut(list, resolvedPath) == SelectSeq(list, LAMBDA d : d # resolvedPath)

AddItBack_Dropped(filtered, resolvedPath) == filtered

\* this.allowedDirectories.push(resolvedPath); // Add it back
AddItBack(filtered, resolvedPath) == Append(filtered, resolvedPath)

RemoveAllowedDirectory(dirPath) ==
  LET resolvedPath == Resolve(dirPath)
      filtered == FilterOut(allowedDirectories, resolvedPath)
  IN
  /\ NoteCall
  /\ IF Len(filtered) = Len(allowedDirectories)
     THEN /\ lastCall' = Call("remove_allowed_directory", resolvedPath, FALSE,
                              "not found", allowedDirectories,
                              allowedDirectories, {})
          /\ UNCHANGED <<allowedDirectories, configFile>>
     ELSE IF Len(filtered) = 0
     THEN /\ allowedDirectories' = AddItBack(filtered, resolvedPath)
          /\ configFile' = configFile
          /\ lastCall' = Call("remove_allowed_directory", resolvedPath, TRUE,
                              "last directory", allowedDirectories,
                              AddItBack(filtered, resolvedPath), {})
     ELSE \/ /\ allowedDirectories' = filtered
             /\ configFile' = SaveConfiguration(filtered)
             /\ lastCall' = Call("remove_allowed_directory", resolvedPath, FALSE,
                                 "removed", allowedDirectories, filtered, {})
          \* saveConfiguration throws
          \/ /\ allowedDirectories' = filtered
             /\ configFile' = configFile
             /\ lastCall' = Call("remove_allowed_directory", resolvedPath, TRUE,
                                 "save failed", allowedDirectories, filtered, {})
  /\ UNCHANGED <<loadState, loadBuf, graphVars, storeVars, compVars>>

Next ==
  \/ LoadRead
  \/ LoadMerge
  \/ ListAllowedDirectories
  \/ \E dirPath \in DirInputs : AddAllowedDirectory(dirPath)
  \/ \E dirPath \in DirInputs : RemoveAllowedDirectory(dirPath)

Spec == Init /\ [][Next]_vars

(***************************************************************************)
(* The startup sequence up to the first tool call, with the startup log    *)
(***************************************************************************)
InitStartup ==
  /\ Constructed
  /\ NoMemoryServer
  /\ NoComposite
  /\ startupLog = [on |-> TRUE, ctorDirs |-> allowedDirectories,
                   sidecar0 |-> configFile, seen |-> FALSE, list |-> <<>>]

FirstToolCall ==
  /\ ~startupLog.seen
  /\ \/ ListAllowedDirectories
     \/ \E dirPath \in DirInputs : AddAllowedDirectory(dirPath)
     \/ \E dirPath \in DirInputs : RemoveAllowedDirectory(dirPath)

NextStartup == LoadRead \/ LoadMerge \/ FirstToolCall

SpecStartup == InitStartup /\ [][NextStartup]_vars

(***************************************************************************)
(* FilesystemServer: the path sandbox and the file tools                   *)
(***************************************************************************)
IsAllowed_BySegments(resolvedPath, dirs) ==
  \E i \in 1..Len(dirs) : NestedUnder(resolvedPath, dirs[i])

\* validatePath: this.allowedDirectories.some(d => resolvedPath.startsWith(d))
IsAllowed(resolvedPath, dirs) ==
  \E i \in 1..Len(dirs) : StartsWith(PathStr(resolvedPath), PathStr(dirs[i]))

\* the part of a file tool common to all of them: validatePath, then the
\* operating-system call on the validated path, which succeeds when the
\* object it reaches has the kind the call needs
FileTool(op, targetPath, kind) ==
  LET resolvedPath == Resolve(targetPath) IN
  /\ NoteCall
  /\ lastCall' =
       IF ~IsAllowed(resolvedPath, allowedDirectories)
       THEN Call(op, resolvedPath, TRUE, "access denied", allowedDirectories,
                 allowedDirectories, {})
       ELSE IF Stat(resolvedPath) \in kind
       THEN Call(op, resolvedPath, FALSE, "ok", allowedDirectories,
                 allowedDirectories, {RealPath(resolvedPath)})
       ELSE Call(op, resolvedPath, TRUE, "failed", allowedDirectories,
                 allowedDirectories, {})
  /\ UNCHANGED <<allowedDirectories, configFile, loadState, loadBuf, graphVars, storeVars, compVars>>

ReadFile(filePath) == FileTool("read_file", filePath, {"file"})

ListDirectory(dirPath) == FileTool("list_directory", dirPath, {"dir"})

GetFileInfo(filePath) == FileTool("get_file_info", filePath, {"file", "dir"})

FileTools == {"read_file", "list_directory", "get_file_info"}

NextPath ==
  \/ LoadRead
  \/ LoadMerge
  \/ \E filePath \in PathInputs(MaxSegs) : ReadFile(filePath)
  \/ \E dirPath \in PathInputs(MaxSegs) : ListDirectory(dirPath)
  \/ \E filePath \in PathInputs(MaxSegs) : GetFileInfo(filePath)

SpecPath == Init /\ [][NextPath]_vars

(***************************************************************************)
(* The knowledge graph.  memoryGraph.entities is a JavaScript object: a    *)
(* map from name to node whose keys keep insertion order, modelled as the  *)
(* sequence of its nodes.  Strings are sequences of characters.            *)
(***************************************************************************)
MaxObs == 2         \* observations in one entity of a create_entities call

EntityNames == {<<"x">>, <<"y">>}
EntityTypes == {<<"t">>}
ObservationStrings == {<<"p">>, <<"q">>}

\* the entities a caller may pass to create_entities
EntityInputs ==
  {[name |-> n, entityType |-> t, observations |-> o] :
     n \in EntityNames, t \in EntityTypes,
     o \in SeqsUpTo(ObservationStrings, MaxObs)}

\* this.memoryGraph.entities[name] is defined
HasEntity(g, name) == \E i \in 1..Len(g) : g[i].name = name

IndexOf(g, name) == CHOOSE i \in 1..Len(g) : g[i].name = name

\* the observations of an entity, <<>> when there is no such entity
ObservationsOf(g, name) ==
  IF HasEntity(g, name) THEN g[IndexOf(g, name)].observations ELSE <<>>

NewNode(name, entityType, observations) ==
  [name |-> name, entityType |-> entityType, observations |-> observations,
   relations |-> <<>>]

\* MemoryServer.createEntities, one entity of the loop
MS_CreateEntity(g, entity) ==
  IF HasEntity(g, entity.name)
  THEN [g EXCEPT ![IndexOf(g, entity.name)].observations =
                    Dedupe(@ \o entity.observations, <<>>)]
  ELSE Append(g, NewNode(entity.name, entity.entityType, entity.observations))

\* ComprehensiveFilesystemMemoryServer.createEntitiesInternal, one entity
CF_CreateEntity(g, entity) ==
  IF HasEntity(g, entity.name)
  THEN [g EXCEPT ![IndexOf(g, entity.name)].observations =
                    @ \o SelectSeq(entity.observations,
                                   LAMBDA obs : obs \notin Range(@))]
  ELSE Append(g, NewNode(entity.name, entity.entityType, entity.observations))

RECURSIVE MS_CreateEntities(_, _)
MS_CreateEntities(g, entities) ==
  IF entities = <<>> THEN g
  ELSE MS_CreateEntities(MS_CreateEntity(g, Head(entities)), Tail(entities))

RECURSIVE CF_CreateEntities(_, _)
CF_CreateEntities(g, entities) ==
  IF entities = <<>> THEN g
  ELSE CF_CreateEntities(CF_CreateEntity(g, Head(entities)), Tail(entities))

(***************************************************************************)
(* The graph stores under the same sequence of calls about entities and     *)
(* their observations                                                      *)
(***************************************************************************)
InitGraph ==
  /\ allowedDirectories = <<>>
  /\ configFile = Absent
  /\ loadState = "done"
  /\ loadBuf = Absent
  /\ lastCall = NoCall
  /\ startupLog = NoLog
  /\ NoMemoryServer
  /\ NoComposite

\* MemoryServer.addObservations: an unknown entity is reported in the text
\* of the result and the graph is left alone
MS_AddObservations(g, entityName, observations) ==
  IF ~HasEntity(g, entityName) THEN g
  ELSE [g EXCEPT ![IndexOf(g, entityName)].observations =
                    Dedupe(@ \o observations, <<>>)]

\* a graph tool call about one entity, sent to both stores: the entity's
\* observations in each store before and after, and each store's result
GraphCall(op, name, observations, msResult, cfResult) ==
  [op |-> op, name |-> name, observations |-> observations,
   repeated |-> /\ graphCall.op = op
                /\ graphCall.name = name
                /\ graphCall.observations = observations,
   existed |-> HasEntity(msGraph, name),
   msBefore |-> ObservationsOf(msGraph, name),
   msAfter |-> ObservationsOf(msGraph', name),
   cfBefore |-> ObservationsOf(cfGraph, name),
   cfAfter |-> ObservationsOf(cfGraph', name),
   ms |-> msResult, cf |-> cfResult, relations |-> <<>>, store |-> NoStoreLog]

\* create_entities with one entity, sent to both stores
CreateEntities(entity) ==
  /\ msGraph' = MS_CreateEntities(msGraph, <<entity>>)
  /\ cfGraph' = CF_CreateEntities(cfGraph, <<entity>>)
  /\ graphCall' = GraphCall("create_entities", entity.name, entity.observations,
                            Succeeded, Succeeded)
  /\ UNCHANGED <<fsVars, compVars, storeVars>>

\* ComprehensiveFilesystemMemoryServer.addObservations on an entity that exists
CF_AddObservations(g, entityName, observations) ==
  [g EXCEPT ![IndexOf(g, entityName)].observations =
              @ \o SelectSeq(observations, LAMBDA obs : obs \notin Range(@))]

\* add_observations, sent to both stores.  MemoryServer answers an unknown
\* entity with the text "Error: Entity ... not found" and no isError, and
\* otherwise reports the growth of the list; the composite server throws on
\* an unknown entity and otherwise reports observations.length.
AddObservations(entityName, observations) ==
  /\ msGraph' = MS_AddObservations(msGraph, entityName, observations)
  /\ cfGraph' = IF HasEntity(cfGraph, entityName)
                THEN CF_AddObservations(cfGraph, entityName, observations)
                ELSE cfGraph
  /\ graphCall' =
       GraphCall("add_observations", entityName, observations,
         IF HasEntity(msGraph, entityName)
         THEN GraphResult(FALSE, FALSE,
                          Len(ObservationsOf(msGraph', entityName))
                            - Len(ObservationsOf(msGraph, entityName)))
         ELSE GraphResult(TRUE, FALSE, 0),
         IF HasEntity(cfGraph, entityName)
         THEN GraphResult(FALSE, FALSE, Len(observations))
         ELSE GraphResult(TRUE, TRUE, 0))
  /\ UNCHANGED <<fsVars, compVars, storeVars>>

\* entity.observations.filter(obs => !observations.includes(obs))
DeleteObservationsOf(g, entityName, observations) ==
  IF ~HasEntity(g, entityName) THEN g
  ELSE [g EXCEPT ![IndexOf(g, entityName)].observations =
                    SelectSeq(@, LAMBDA obs : obs \notin Range(observations))]

\* delete_observations, sent to both stores
DeleteObservations(entityName, observations) ==
  /\ msGraph' = DeleteObservationsOf(msGraph, entityName, observations)
  /\ cfGraph' = DeleteObservationsOf(cfGraph, entityName, observations)
  /\ graphCall' =
       GraphCall("delete_observations", entityName, observations,
         IF HasEntity(msGraph, entityName)
         THEN GraphResult(FALSE, FALSE,
                          Len(ObservationsOf(msGraph, entityName))
                            - Len(ObservationsOf(msGraph', entityName)))
         ELSE GraphResult(TRUE, FALSE, 0),
         IF HasEntity(cfGraph, entityName)
         THEN GraphResult(FALSE, FALSE, Len(observations))
         ELSE GraphResult(TRUE, TRUE, 0))
  /\ UNCHANGED <<fsVars, compVars, storeVars>>

\* entity.relations.filter(r => r.to !== name), for every entity
StripRelationsTo(g, name) ==
  [i \in 1..Len(g) |->
     [g[i] EXCEPT !.relations = SelectSeq(@, LAMBDA r : r.to # name)]]

\* delete this.memoryGraph.entities[name]
RemoveEntity(g, name) == SelectSeq(g, LAMBDA entity : entity.name # name)

\* members of Object.prototype: this.memoryGraph.entities[name] is defined
\* for them although the graph has no such entity
InheritedNames == {<<"constructor">>}

\* this.memoryGraph.entities[name] is truthy
Defined(g, name) == HasEntity(g, name) \/ name \in InheritedNames

\* MemoryServer.deleteEntities, one name of the loop: relations are stripped
\* inside the if
MS_DeleteEntity(g, name) ==
  IF Defined(g, name) THEN StripRelationsTo(RemoveEntity(g, name), name) ELSE g

\* ComprehensiveFilesystemMemoryServer.deleteEntities, one name of the loop
CF_DeleteEntity(g, name) == StripRelationsTo(RemoveEntity(g, name), name)

\* delete_entities with one name, sent to both stores
DeleteEntities(name) ==
  /\ msGraph' = MS_DeleteEntity(msGraph, name)
  /\ cfGraph' = CF_DeleteEntity(cfGraph, name)
  /\ graphCall' = GraphCall("delete_entities", name, <<>>, Succeeded, Succeeded)
  /\ UNCHANGED <<fsVars, compVars, storeVars>>

ObservationLists == SeqsUpTo(ObservationStrings, MaxObs)

NextGraph ==
  \/ \E entity \in EntityInputs : CreateEntities(entity)
  \/ \E name \in EntityNames, observations \in ObservationLists :
       AddObservations(name, observations)
  \/ \E name \in EntityNames, observations \in ObservationLists :
       DeleteObservations(name, observations)
  \/ \E name \in EntityNames \cup InheritedNames : DeleteEntities(name)

SpecGraph == InitGraph /\ [][NextGraph]_vars

(***************************************************************************)
(* ComprehensiveFilesystemMemoryServer: the built-in graph, the lazy       *)
(* initialisation and the filesystem-to-graph bridge.  The constructor,    *)
(* loadConfiguration and validatePath are those of FilesystemServer.       *)
(***************************************************************************)
MaxCalls == 2       \* tool calls handled by a server with a graph
MaxTime == 1        \* the clock stops here

DayTicks == 1       \* 24 * 60 * 60 * 1000 ms, in clock ticks

\* the raw paths given to the file tools of a server with a graph:
\* /a, /f, /a/f, /ab/f, /a/l, /a/./f
ToolPaths == {<<SegA>>, <<SegF>>, <<SegA, SegF>>, <<SegAB, SegF>>,
              <<SegA, SegL>>, <<SegA, Dot, SegF>>}

\* the command lines and sidecars a server with a graph is started with
GraphCommandLines == {<<<<SegA>>>>, <<<<SegA>>, <<SegAB>>>>}

GraphSidecars == {Absent, Sidecar(<<<<SegAB>>>>)}

\* every file on the disk holds this text
FileContent == <<"c">>

\* a graph written by an earlier run of the server
PriorGraph == <<NewNode(<<"x">>, <<"t">>, << <<"p">> >>)>>

MemoryFiles == {NoFile, MemoryFile(PriorGraph)}

\* path.basename on a raw path
Basename(toks) == IF toks = <<>> THEN <<>> ELSE toks[Len(toks)]

FileEntityName(rawPath) == <<"file:">> \o PathStr(rawPath)

DirectoryEntityName(rawPath) == <<"directory:">> \o PathStr(rawPath)

\* new Date().toISOString()
Timestamp(t) == ToString(t)

Relation(from, to, relationType) ==
  [from |-> from, to |-> to, relationType |-> relationType]

\* createRelationsInternal, one relation of the loop
ExistingRelation_None(relations, r) == FALSE
\* relations.find(r2 => r2.to === r.to && r2.relationType === r.relationType)
ExistingRelation(relations, r) ==
  \E k \in 1..Len(relations) :
    /\ relations[k].to = r.to
    /\ relations[k].relationType = r.relationType

\* r.from is never a member of Object.prototype in the calls considered
CF_CreateRelation(g, r) ==
  LET g1 == IF Defined(g, r.from) THEN g
            ELSE Append(g, NewNode(r.from, <<"unknown">>, <<>>))
      g2 == IF Defined(g1, r.to) THEN g1
            ELSE Append(g1, NewNode(r.to, <<"unknown">>, <<>>))
      i == IndexOf(g2, r.from)
  IN IF ExistingRelation(g2[i].relations, r) THEN g2
     ELSE [g2 EXCEPT ![i].relations = Append(@, r)]

RECURSIVE CF_CreateRelations(_, _)
CF_CreateRelations(g, relations) ==
  IF relations = <<>> THEN g
  ELSE CF_CreateRelations(CF_CreateRelation(g, Head(relations)), Tail(relations))

\* initializeAllowedDirectories: the graphs it saves, in order
InitializeAllowedDirectories(g, dirs, t) ==
  LET directoryEntities ==
        [i \in 1..Len(dirs) |->
           [name |-> DirectoryEntityName(dirs[i]),
            entityType |-> <<"filesystem_directory">>,
            observations |->
              << <<"Allowed directory: ">> \o PathStr(dirs[i]),
                 <<"Resolved path: ">> \o PathStr(Resolve(dirs[i])),
                 <<"Added at: ", Timestamp(t)>> >>]]
      relations ==
        [i \in 1..(Len(dirs) - 1) |->
           Relation(DirectoryEntityName(dirs[i]), DirectoryEntityName(dirs[i + 1]),
                    <<"sibling_directory">>)]
      g1 == CF_CreateEntities(g, directoryEntities)
  IN IF Len(relations) > 0 THEN <<g1, CF_CreateRelations(g1, relations)>>
     ELSE <<g1>>

\* obs.includes('Accessed at:') && new Date(obs.split('Accessed at: ')[1]) is
\* later than a day before t
AccessedSince(obs, t) ==
  /\ Len(obs) = 2
  /\ obs[1] = "Accessed at: "
  /\ \E n \in 0..MaxTime : Timestamp(n) = obs[2] /\ n > t - DayTicks

\* rememberFileAccess: the graphs it saves, in order
RememberFileAccess(g, filePath, operation, metadata, t) ==
  LET fileEntityName == FileEntityName(filePath)
      directoryEntityName == DirectoryEntityName(Dirname(filePath))
      observations ==
        << <<"Operation: ", operation>>,
           <<"Accessed at: ", Timestamp(t)>>,
           <<"File name: ">> \o Basename(filePath),
           <<"Directory: ">> \o PathStr(Dirname(filePath)) >> \o metadata
      g1 == CF_CreateEntities(g, <<[name |-> fileEntityName,
                                    entityType |-> <<"filesystem_file">>,
                                    observations |-> observations]>>)
      g2 == CF_CreateRelations(g1, <<Relation(directoryEntityName, fileEntityName,
                                              <<"contains">>)>>)
      recentFiles ==
        SelectSeq(g2, LAMBDA entity :
          /\ entity.entityType = <<"filesystem_file">>
          /\ \E k \in 1..Len(entity.observations) :
               AccessedSince(entity.observations[k], t))
  IN IF Len(recentFiles) > 1
     THEN <<g1, g2,
            CF_CreateRelations(g2, <<Relation(fileEntityName,
                                              recentFiles[Len(recentFiles) - 1].name,
                                              <<"accessed_after">>)>>)>>
     ELSE <<g1, g2>>

\* the tools call rememberFileAccess after the operating-system call, inside
\* the try block, and validatePath before it: the graphs the bridge saves
BridgeOnSuccess_Always(ok, remembered) == remembered
BridgeOnSuccess(ok, remembered) == IF ok THEN remembered ELSE <<>>

Last(seq, default) == IF seq = <<>> THEN default ELSE seq[Len(seq)]

\* the CallToolRequestSchema handler for a file tool: ensureInitialized (on
\* the first call: loadMemoryGraph, initializeAllowedDirectories), then
\* validatePath, the operating-system call, and rememberFileAccess.  The
\* saveMemoryGraph calls of one handler all succeed or (the memory file
\* cannot be written) all fail, which is logged and nothing else.
CF_FileTool(op, targetPath, kind, operation, metadata) ==
  LET resolvedPath == Resolve(targetPath)
      loaded == IF isInitialized THEN cfGraph ELSE graphFile.entities
      initSaves == IF isInitialized THEN <<>>
                   ELSE InitializeAllowedDirectories(loaded, allowedDirectories, now)
      afterInit == Last(initSaves, loaded)
      allowed == IsAllowed(resolvedPath, allowedDirectories)
      ok == allowed /\ Stat(resolvedPath) \in kind
      bridgeSaves ==
        BridgeOnSuccess(ok, RememberFileAccess(afterInit, targetPath, operation,
                                               metadata, now))
      saves == initSaves \o bridgeSaves
  IN /\ calls < MaxCalls
     /\ calls' = calls + 1
     /\ NoteCall
     /\ isInitialized' = TRUE
     /\ cfGraph' = Last(bridgeSaves, afterInit)
     /\ \E saved \in BOOLEAN :
          /\ graphFile' = IF saved /\ saves # <<>>
                          THEN MemoryFile(Last(saves, <<>>)) ELSE graphFile
          /\ bridgeLog' = BridgeLog(targetPath, loaded, afterInit, ok,
                                    ~saved /\ saves # <<>>)
     /\ lastCall' =
          IF ~allowed
          THEN Call(op, resolvedPath, TRUE, "access denied", allowedDirectories,
                    allowedDirectories, {})
          ELSE IF ok
          THEN Call(op, resolvedPath, FALSE, "ok", allowedDirectories,
                    allowedDirectories, {RealPath(resolvedPath)})
          ELSE Call(op, resolvedPath, TRUE, "failed", allowedDirectories,
                    allowedDirectories, {})
     /\ UNCHANGED <<allowedDirectories, configFile, loadState, loadBuf,
                    msGraph, graphCall, now, memoryEnabled, memoryUp,
                    storeVars>>

SizeOf(content) == <<"Size: ", ToString(Len(content)), " bytes">>

CF_ReadFile(filePath) ==
  CF_FileTool("read_file", filePath, {"file"}, "read",
              <<SizeOf(FileContent), <<"Content preview: ">> \o FileContent>>)

CF_ListDirectory(dirPath) ==
  CF_FileTool("list_directory", dirPath, {"dir"}, "list_directory",
              << <<"Is directory: true">> >>)

\* buildTree turns every error into a string of the tree, so the call
\* succeeds on every validated path
CF_DirectoryTree(dirPath) ==
  CF_FileTool("directory_tree", dirPath, {"dir", "file", "none"},
              "directory_tree", << <<"Is directory: true">> >>)

CF_FileTools == {"read_file", "list_directory", "directory_tree"}

Tick ==
  /\ now < MaxTime
  /\ now' = now + 1
  /\ UNCHANGED <<fsVars, graphVars, storeVars, isInitialized, graphFile, calls, bridgeLog,
                 memoryEnabled, memoryUp>>

\* new ComprehensiveFilesystemMemoryServer(finalDirectories, memoryFilePath,
\* configFilePath)
InitComp ==
  /\ \E args \in GraphCommandLines : allowedDirectories = ConstructorDirs(args)
  /\ configFile \in GraphSidecars
  /\ loadState = "pending"
  /\ loadBuf = Absent
  /\ lastCall = NoCall
  /\ startupLog = NoLog
  /\ NoMemoryServer
  /\ isInitialized = FALSE
  /\ graphFile \in MemoryFiles
  /\ now = 0
  /\ calls = 0
  /\ bridgeLog = NoBridgeLog
  /\ memoryEnabled = FALSE
  /\ memoryUp = FALSE

NextComp ==
  \/ LoadRead
  \/ LoadMerge
  \/ Tick
  \/ \E filePath \in ToolPaths : CF_ReadFile(filePath)
  \/ \E dirPath \in ToolPaths : CF_ListDirectory(dirPath)
  \/ \E dirPath \in ToolPaths : CF_DirectoryTree(dirPath)

SpecComp == InitComp /\ [][NextComp]_vars

(***************************************************************************)
(* FilesystemServerWithMemory: directory management with a MemoryClient    *)
(* that talks to a MemoryServer process.  The constructor,                 *)
(* loadConfiguration and saveConfiguration are those of FilesystemServer.  *)
(***************************************************************************)

\* MemoryServer.createRelations, one relation of the loop
MS_CreateRelation(g, r) ==
  LET g1 == IF Defined(g, r.from) THEN g
            ELSE Append(g, NewNode(r.from, <<"unknown">>, <<>>))
      g2 == IF Defined(g1, r.to) THEN g1
            ELSE Append(g1, NewNode(r.to, <<"unknown">>, <<>>))
      i == IndexOf(g2, r.from)
  IN IF ExistingRelation(g2[i].relations, r) THEN g2
     ELSE [g2 EXCEPT ![i].relations = Append(@, r)]

RECURSIVE MS_CreateRelations(_, _)
MS_CreateRelations(g, relations) ==
  IF relations = <<>> THEN g
  ELSE MS_CreateRelations(MS_CreateRelation(g, Head(relations)), Tail(relations))

\* rememberAllowedDirectories, through the MemoryClient
RememberAllowedDirectories(g, dirs, t) ==
  LET directoryEntities ==
        [i \in 1..Len(dirs) |->
           [name |-> DirectoryEntityName(dirs[i]),
            entityType |-> <<"filesystem_directory">>,
            observations |->
              << <<"Allowed directory: ">> \o PathStr(dirs[i]),
                 <<"Resolved path: ">> \o PathStr(Resolve(dirs[i])),
                 <<"Added at: ", Timestamp(t)>> >>]]
      relations ==
        [i \in 1..(Len(dirs) - 1) |->
           Relation(DirectoryEntityName(dirs[i]), DirectoryEntityName(dirs[i + 1]),
                    <<"sibling_directory">>)]
      g1 == MS_CreateEntities(g, directoryEntities)
  IN IF Len(relations) > 0 THEN MS_CreateRelations(g1, relations) ELSE g1

\* start(): initializeMemory, after the transport is connected.  connect
\* spawns the memory server, which loads the memory file on its first call.
InitializeMemory ==
  /\ ~isInitialized
  /\ isInitialized' = TRUE
  /\ \/ /\ memoryEnabled' = TRUE
        /\ memoryUp' = TRUE
        /\ msGraph' = RememberAllowedDirectories(graphFile.entities,
                                                 allowedDirectories, now)
        /\ graphFile' = MemoryFile(msGraph')
     \* connect throws
     \/ /\ memoryEnabled' = FALSE
        /\ memoryUp' = FALSE
        /\ UNCHANGED <<msGraph, graphFile>>
  /\ UNCHANGED <<fsVars, cfGraph, graphCall, now, calls, bridgeLog, storeVars>>

\* the memory server process exits or its transport closes; MCPClient.callTool
\* throws from then on, and MemoryClient.isConnected stays true
MemoryServerStops ==
  /\ memoryUp
  /\ memoryUp' = FALSE
  /\ UNCHANGED <<fsVars, graphVars, storeVars, isInitialized, graphFile, now, calls,
                 bridgeLog, memoryEnabled>>

\* the tail of addAllowedDirectory and removeAllowedDirectory after the
\* sidecar is saved: if (this.memoryEnabled) await this.memoryClient...,
\* inside the method's try block.  The call is the tool's result when the
\* memory step does not throw.
MemoryStep(call, g) ==
  /\ bridgeLog' = BridgeLog(call.arg, msGraph, msGraph, TRUE,
                            memoryEnabled /\ ~memoryUp)
  /\ IF memoryEnabled /\ ~memoryUp
     THEN /\ lastCall' = [call EXCEPT !.isError = TRUE, !.text = "memory failed"]
          /\ UNCHANGED <<msGraph, graphFile>>
     ELSE IF memoryEnabled
     THEN /\ lastCall' = call
          /\ msGraph' = g
          /\ graphFile' = MemoryFile(g)
     ELSE /\ lastCall' = call
          /\ UNCHANGED <<msGraph, graphFile>>

\* the call ends before the memory step
NoMemoryStep(call) ==
  /\ lastCall' = call
  /\ bridgeLog' = BridgeLog(call.arg, msGraph, msGraph, FALSE, FALSE)
  /\ UNCHANGED <<msGraph, graphFile>>

WM_AddAllowedDirectory(dirPath) ==
  LET resolvedPath == Resolve(dirPath)
      pushed == Append(allowedDirectories, resolvedPath)
      Result(isError, text, after) ==
        Call("add_allowed_directory", resolvedPath, isError, text,
             allowedDirectories, after, {})
  IN
  /\ calls < MaxCalls
  /\ calls' = calls + 1
  /\ NoteCall
  /\ IF Stat(resolvedPath) # "dir"
     THEN /\ NoMemoryStep(Result(TRUE, "does not exist", allowedDirectories))
          /\ UNCHANGED <<allowedDirectories, configFile>>
     ELSE IF resolvedPath \in Range(allowedDirectories)
     THEN /\ NoMemoryStep(Result(FALSE, "already in list", allowedDirectories))
          /\ UNCHANGED <<allowedDirectories, configFile>>
     ELSE \/ /\ allowedDirectories' = pushed
             /\ configFile' = SaveConfiguration(pushed)
             /\ MemoryStep(Result(FALSE, "added", pushed),
                  MS_CreateEntities(msGraph,
                    <<[name |-> DirectoryEntityName(resolvedPath),
                       entityType |-> <<"filesystem_directory">>,
                       observations |->
                         << <<"Allowed directory: ">> \o PathStr(resolvedPath),
                            <<"Resolved path: ">> \o PathStr(Resolve(resolvedPath)),
                            <<"Added dynamically at: ", Timestamp(now)>> >>]>>))
          \* saveConfiguration throws
          \/ /\ allowedDirectories' = pushed
             /\ configFile' = configFile
             /\ NoMemoryStep(Result(TRUE, "save failed", pushed))
  /\ UNCHANGED <<loadState, loadBuf, cfGraph, graphCall, isInitialized, now,
                 memoryEnabled, memoryUp, storeVars>>

WM_RemoveAllowedDirectory(dirPath) ==
  LET resolvedPath == Resolve(dirPath)
      filtered == FilterOut(allowedDirectories, resolvedPath)
      Result(isError, text, after) ==
        Call("remove_allowed_directory", resolvedPath, isError, text,
             allowedDirectories, after, {})
  IN
  /\ calls < MaxCalls
  /\ calls' = calls + 1
  /\ NoteCall
  /\ IF Len(filtered) = Len(allowedDirectories)
     THEN /\ NoMemoryStep(Result(FALSE, "not found", allowedDirectories))
          /\ UNCHANGED <<allowedDirectories, configFile>>
     ELSE IF Len(filtered) = 0
     THEN /\ allowedDirectories' = AddItBack(filtered, resolvedPath)
          /\ configFile' = configFile
          /\ NoMemoryStep(Result(TRUE, "last directory",
                                 AddItBack(filtered, resolvedPath)))
     ELSE \/ /\ allowedDirectories' = filtered
             /\ configFile' = SaveConfiguration(filtered)
             /\ MemoryStep(Result(FALSE, "removed", filtered),
                  MS_AddObservations(msGraph, DirectoryEntityName(resolvedPath),
                    << <<"Directory access removed at: ", Timestamp(now)>> >>))
          \* saveConfiguration throws
          \/ /\ allowedDirectories' = filtered
             /\ configFile' = configFile
             /\ NoMemoryStep(Result(TRUE, "save failed", filtered))
  /\ UNCHANGED <<loadState, loadBuf, cfGraph, graphCall, isInitialized, now,
                 memoryEnabled, memoryUp, storeVars>>

\* new FilesystemServerWithMemory(allowedDirectories, memoryFilePath)
InitWM ==
  /\ \E args \in GraphCommandLines : allowedDirectories = ConstructorDirs(args)
  /\ configFile \in GraphSidecars
  /\ loadState = "pending"
  /\ loadBuf = Absent
  /\ lastCall = NoCall
  /\ startupLog = NoLog
  /\ NoMemoryServer
  /\ isInitialized = FALSE
  /\ graphFile \in MemoryFiles
  /\ now = 0
  /\ calls = 0
  /\ bridgeLog = NoBridgeLog
  /\ memoryEnabled = FALSE
  /\ memoryUp = FALSE

NextWM ==
  \/ LoadRead
  \/ LoadMerge
  \/ Tick
  \/ InitializeMemory
  \/ MemoryServerStops
  \/ \E dirPath \in DirInputs : WM_AddAllowedDirectory(dirPath)
  \/ \E dirPath \in DirInputs : WM_RemoveAllowedDirectory(dirPath)

SpecWM == InitWM /\ [][NextWM]_vars

(***************************************************************************)
(* The graph stores under the same sequence of calls about relations       *)
(***************************************************************************)
MaxRels == 2        \* relations in one create_relations call

RelationTypes == {<<"r">>}

\* the targets of the relations a caller may pass: an entity name, or a
\* name that every JavaScript object inherits
RelationTargets == {<<"y">>} \cup InheritedNames

RelationInputs ==
  {Relation(from, to, relationType) :
     from \in EntityNames, to \in RelationTargets,
     relationType \in RelationTypes}

\* fromEntity.relations.filter(r2 => !(r2.to === r.to && r2.relationType ===
\* r.relationType)), when the source entity exists
DeleteRelation(g, r) ==
  IF ~HasEntity(g, r.from) THEN g
  ELSE [g EXCEPT ![IndexOf(g, r.from)].relations =
          SelectSeq(@, LAMBDA r2 : ~(r2.to = r.to /\ r2.relationType = r.relationType))]

\* a graph tool call about relations, sent to both stores: each store's
\* graph before and after
RelationCall(op, relations) ==
  [op |-> op, name |-> <<>>, observations |-> <<>>,
   repeated |-> graphCall.op = op /\ graphCall.relations = relations,
   existed |-> FALSE,
   msBefore |-> msGraph, msAfter |-> msGraph',
   cfBefore |-> cfGraph, cfAfter |-> cfGraph',
   ms |-> Succeeded, cf |-> Succeeded, relations |-> relations,
   store |-> NoStoreLog]

CreateRelations(relations) ==
  /\ msGraph' = MS_CreateRelations(msGraph, relations)
  /\ cfGraph' = CF_CreateRelations(cfGraph, relations)
  /\ graphCall' = RelationCall("create_relations", relations)
  /\ UNCHANGED <<fsVars, compVars, storeVars>>

\* delete_relations with one relation
DeleteRelations(r) ==
  /\ msGraph' = DeleteRelation(msGraph, r)
  /\ cfGraph' = DeleteRelation(cfGraph, r)
  /\ graphCall' = RelationCall("delete_relations", <<r>>)
  /\ UNCHANGED <<fsVars, compVars, storeVars>>

NextRelations ==
  \/ \E relations \in SeqsUpTo(RelationInputs, MaxRels) : CreateRelations(relations)
  \/ \E r \in RelationInputs : DeleteRelations(r)
  \/ \E name \in EntityNames \cup InheritedNames : DeleteEntities(name)

SpecRelations == InitGraph /\ [][NextRelations]_vars

(***************************************************************************)
(* The graph tools of MemoryServer and of the composite server with their  *)
(* memory files: the lazy load at the first call and the save after every  *)
(* mutation.  Both servers receive the same calls.                         *)
(***************************************************************************)
MaxGraphCalls == 2  \* graph tool calls handled by each server

\* a file in which x holds a relation to y and there is no entity y
DanglingGraph ==
  <<[name |-> <<"x">>, entityType |-> <<"t">>, observations |-> <<>>,
     relations |-> <<Relation(<<"x">>, <<"y">>, <<"r">>)>>]>>

StoreFiles == {NoFile, MemoryFile(PriorGraph), MemoryFile(DanglingGraph)}

StoreObservationLists == {<<>>, << <<"p">> >>}

StoreRelations == {r \in RelationInputs : r.to \in EntityNames}

Request(op, name, observations, relations) ==
  [op |-> op, name |-> name, observations |-> observations,
   relations |-> relations]

MutatingTools == {"create_entities", "create_relations", "add_observations",
                  "delete_entities", "delete_observations", "delete_relations"}

LoadMemoryGraph_Throws(file) == [graph |-> file.entities, ok |-> file.exists]
\* loadMemoryGraph: the parsed file, or the empty graph when readFile or
\* JSON.parse throws; it never throws itself
LoadMemoryGraph(file) ==
  [graph |-> IF file.exists THEN file.entities ELSE <<>>, ok |-> TRUE]

\* a tool method's effect: the graph it leaves, its result, and whether it
\* reached its saveMemoryGraph
Outcome(g, result, saves) == [graph |-> g, result |-> result, saves |-> saves]

\* the switch of MemoryServer's handler
MS_Tool(g, req) ==
  CASE req.op = "create_entities" ->
         Outcome(MS_CreateEntities(g, <<[name |-> req.name, entityType |-> <<"t">>,
                                         observations |-> req.observations]>>),
                 Succeeded, TRUE)
    [] req.op = "add_observations" ->
         IF HasEntity(g, req.name)
         THEN Outcome(MS_AddObservations(g, req.name, req.observations),
                      GraphResult(FALSE, FALSE,
                        Len(ObservationsOf(MS_AddObservations(g, req.name,
                                                              req.observations),
                                           req.name))
                          - Len(ObservationsOf(g, req.name))),
                      TRUE)
         ELSE Outcome(g, GraphResult(TRUE, FALSE, 0), FALSE)
    [] req.op = "delete_observations" ->
         IF HasEntity(g, req.name)
         THEN Outcome(DeleteObservationsOf(g, req.name, req.observations),
                      GraphResult(FALSE, FALSE,
                        Len(ObservationsOf(g, req.name))
                          - Len(ObservationsOf(DeleteObservationsOf(g, req.name,
                                                                    req.observations),
                                               req.name))),
                      TRUE)
         ELSE Outcome(g, GraphResult(TRUE, FALSE, 0), FALSE)
    [] req.op = "delete_entities" ->
         Outcome(MS_DeleteEntity(g, req.name), Succeeded, TRUE)
    [] req.op = "create_relations" ->
         Outcome(MS_CreateRelations(g, req.relations), Succeeded, TRUE)
    [] req.op = "delete_relations" ->
         Outcome(DeleteRelation(g, req.relations[1]), Succeeded, TRUE)

\* the switch of the composite server's handler, graph tools
CF_Tool(g, req) ==
  CASE req.op = "create_entities" ->
         Outcome(CF_CreateEntities(g, <<[name |-> req.name, entityType |-> <<"t">>,
                                         observations |-> req.observations]>>),
                 Succeeded, TRUE)
    [] req.op = "add_observations" ->
         IF HasEntity(g, req.name)
         THEN Outcome(CF_AddObservations(g, req.name, req.observations),
                      GraphResult(FALSE, FALSE, Len(req.observations)), TRUE)
         ELSE Outcome(g, GraphResult(TRUE, TRUE, 0), FALSE)
    [] req.op = "delete_observations" ->
         IF HasEntity(g, req.name)
         THEN Outcome(DeleteObservationsOf(g, req.name, req.observations),
                      GraphResult(FALSE, FALSE, Len(req.observations)), TRUE)
         ELSE Outcome(g, GraphResult(TRUE, TRUE, 0), FALSE)
    [] req.op = "delete_entities" ->
         Outcome(CF_DeleteEntity(g, req.name), Succeeded, TRUE)
    [] req.op = "create_relations" ->
         Outcome(CF_CreateRelations(g, req.relations), Succeeded, TRUE)
    [] req.op = "delete_relations" ->
         Outcome(DeleteRelation(g, req.relations[1]), Succeeded, TRUE)

\* the file after a handler: what the last write that was attempted left,
\* when the writes of the call succeed
FileAfter(file, writes, saved) ==
  IF saved /\ writes # <<>> THEN MemoryFile(Last(writes, <<>>)) ELSE file

\* the CallToolRequestSchema handlers of both servers for one graph tool
\* call: ensureInitialized (MemoryServer: loadMemoryGraph, which saves the
\* empty graph when the load failed; composite server: loadMemoryGraph and
\* initializeAllowedDirectories), then the tool.  The writes of the memory
\* files during one call all succeed or all fail.
StoreTool(req) ==
  LET msLoad == IF msInitialized THEN [graph |-> msGraph, ok |-> TRUE]
                ELSE LoadMemoryGraph(msFile)
      cfLoad == IF isInitialized THEN [graph |-> cfGraph, ok |-> TRUE]
                ELSE LoadMemoryGraph(graphFile)
      msLoadSaves == IF ~msInitialized /\ ~msFile.exists THEN << <<>> >> ELSE <<>>
      cfInitSaves == IF isInitialized THEN <<>>
                     ELSE InitializeAllowedDirectories(cfLoad.graph,
                                                       allowedDirectories, now)
      msOut == IF msLoad.ok THEN MS_Tool(msLoad.graph, req)
               ELSE Outcome(msGraph, GraphResult(TRUE, FALSE, 0), FALSE)
      cfOut == IF cfLoad.ok THEN CF_Tool(Last(cfInitSaves, cfLoad.graph), req)
               ELSE Outcome(cfGraph, GraphResult(TRUE, TRUE, 0), FALSE)
      msWrites == (IF msLoad.ok THEN msLoadSaves ELSE <<>>)
                    \o (IF msOut.saves THEN <<msOut.graph>> ELSE <<>>)
      cfWrites == (IF cfLoad.ok THEN cfInitSaves ELSE <<>>)
                    \o (IF cfOut.saves THEN <<cfOut.graph>> ELSE <<>>)
      About(g) == IF req.op \in {"create_relations", "delete_relations"}
                  THEN g ELSE ObservationsOf(g, req.name)
  IN /\ calls < MaxGraphCalls
     /\ calls' = calls + 1
     /\ msGraph' = msOut.graph
     /\ cfGraph' = cfOut.graph
     /\ msInitialized' = (msInitialized \/ msLoad.ok)
     /\ isInitialized' = (isInitialized \/ cfLoad.ok)
     /\ \E saved \in BOOLEAN :
          /\ msFile' = FileAfter(msFile, msWrites, saved)
          /\ graphFile' = FileAfter(graphFile, cfWrites, saved)
          /\ graphCall' =
               [op |-> req.op, name |-> req.name,
                observations |-> req.observations,
                relations |-> req.relations,
                repeated |-> FALSE,
                existed |-> HasEntity(msLoad.graph, req.name),
                msBefore |-> About(msLoad.graph), msAfter |-> About(msOut.graph),
                cfBefore |-> About(cfLoad.graph), cfAfter |-> About(cfOut.graph),
                ms |-> msOut.result, cf |-> cfOut.result,
                store |-> StoreLog(~msInitialized, ~msFile.exists,
                                   msLoad.graph, cfLoad.graph,
                                   ~saved /\ msOut.saves /\ cfOut.saves)]
     /\ UNCHANGED <<fsVars, now, bridgeLog, memoryEnabled, memoryUp, searchLog,
                     laterVars>>

ST_CreateEntities(name, observations) ==
  StoreTool(Request("create_entities", name, observations, <<>>))

ST_AddObservations(name, observations) ==
  StoreTool(Request("add_observations", name, observations, <<>>))

ST_DeleteObservations(name, observations) ==
  StoreTool(Request("delete_observations", name, observations, <<>>))

ST_DeleteEntities(name) ==
  StoreTool(Request("delete_entities", name, <<>>, <<>>))

ST_CreateRelations(r) ==
  StoreTool(Request("create_relations", <<>>, <<>>, <<r>>))

ST_DeleteRelations(r) ==
  StoreTool(Request("delete_relations", <<>>, <<>>, <<r>>))

\* both servers constructed, the composite server with the directory /a and
\* no sidecar; the memory files of the two hold the same graph
InitStore ==
  /\ allowedDirectories = ConstructorDirs(<<<<SegA>>>>)
  /\ configFile = Absent
  /\ loadState = "done"
  /\ loadBuf = Absent
  /\ lastCall = NoCall
  /\ startupLog = NoLog
  /\ msGraph = <<>>
  /\ cfGraph = <<>>
  /\ graphCall = NoGraphCall
  /\ msFile \in StoreFiles
  /\ msInitialized = FALSE
  /\ searchLog = NoSearch
  /\ NoLater
  /\ isInitialized = FALSE
  /\ graphFile = msFile
  /\ now = 0
  /\ calls = 0
  /\ bridgeLog = NoBridgeLog
  /\ memoryEnabled = FALSE
  /\ memoryUp = FALSE

NextStore ==
  \/ \E name \in EntityNames, observations \in StoreObservationLists :
       ST_CreateEntities(name, observations)
  \/ \E name \in EntityNames, observations \in StoreObservationLists :
       ST_AddObservations(name, observations)
  \/ \E name \in EntityNames, observations \in StoreObservationLists :
       ST_DeleteObservations(name, observations)
  \/ \E name \in EntityNames : ST_DeleteEntities(name)
  \/ \E r \in StoreRelations : ST_CreateRelations(r)
  \/ \E r \in StoreRelations : ST_DeleteRelations(r)

SpecStore == InitStore /\ [][NextStore]_vars

(***************************************************************************)
(* search_nodes                                                            *)
(***************************************************************************)

MaxHits == 10  \* observations of the longest observation list

\* String.prototype.toLowerCase, on the characters of the model
LowerChar(c) == CASE c = "A" -> "a" [] c = "Z" -> "z" [] OTHER -> c

ToLowerCase(str) == [i \in 1..Len(str) |-> LowerChar(str[i])]

\* String.prototype.includes
Includes(str, sub) ==
  \E i \in 0..(Len(str) - Len(sub)) : SubSeq(str, i + 1, i + Len(sub)) = sub

\* name.toLowerCase().includes(queryLower)
Matches(str, query) == Includes(ToLowerCase(str), ToLowerCase(query))

\* the loop over entity.observations: one addend per matching observation
RECURSIVE ObservationScore(_, _, _)
ObservationScore(observations, query, each) ==
  IF observations = <<>> THEN 0
  ELSE (IF Matches(observations[1], query) THEN each ELSE 0)
         + ObservationScore(Tail(observations), query, each)

\* the loop over entity.relations of MemoryServer.searchNodes
RECURSIVE RelationScore(_, _)
RelationScore(relations, query) ==
  IF relations = <<>> THEN 0
  ELSE (IF Matches(relations[1].relationType, query)
           \/ Matches(relations[1].to, query) THEN 2 ELSE 0)
         + RelationScore(Tail(relations), query)

\* the score MemoryServer.searchNodes gives an entity
MS_Score(node, query) ==
  (IF Matches(node.name, query) THEN 10 ELSE 0)
    + (IF Matches(node.entityType, query) THEN 5 ELSE 0)
    + ObservationScore(node.observations, query, 3)
    + RelationScore(node.relations, query)

\* the score searchNodesInternal of the composite server gives an entity
CF_Score(node, query) ==
  (IF Matches(node.name, query) THEN 100 ELSE 0)
    + (IF Matches(node.entityType, query) THEN 50 ELSE 0)
    + ObservationScore(node.observations, query, 10)

\* results.push({..., score}) for the entities with score > 0, in key order
MS_Scored(g, query) ==
  SelectSeq([i \in 1..Len(g) |-> [name |-> g[i].name,
                                  score |-> MS_Score(g[i], query)]],
            LAMBDA r : r.score > 0)

CF_Scored(g, query) ==
  SelectSeq([i \in 1..Len(g) |-> [name |-> g[i].name,
                                  score |-> CF_Score(g[i], query)]],
            LAMBDA r : r.score > 0)

\* one result put at its place in a list sorted by score descending, behind
\* the results of the same score
RECURSIVE InsertByScore(_, _)
InsertByScore(sorted, r) ==
  IF sorted = <<>> THEN <<r>>
  ELSE IF sorted[1].score >= r.score
       THEN <<sorted[1]>> \o InsertByScore(Tail(sorted), r)
       ELSE <<r>> \o sorted

\* results.sort((a, b) => (b.score || 0) - (a.score || 0)); the sort is stable
RECURSIVE SortByScore(_)
SortByScore(results) ==
  IF results = <<>> THEN <<>>
  ELSE InsertByScore(SortByScore(SubSeq(results, 1, Len(results) - 1)),
                     results[Len(results)])

MS_SearchNodes(g, query) == SortByScore(MS_Scored(g, query))

CF_SearchNodes(g, query) == SortByScore(CF_Scored(g, query))

SearchNames == {<<"a">>, <<"z">>}

SearchTypes == {<<"t">>, <<"a">>}

SearchQueries == {<<"a">>, <<"A">>, <<"z">>}

\* n different observations that each hold the letter a
Hits(n) == [k \in 1..n |-> <<"a", ToString(k)>>]

SearchObservationLists == {Hits(0), Hits(1), Hits(4), Hits(MaxHits)}

SearchEntities ==
  [name : SearchNames, entityType : SearchTypes,
   observations : SearchObservationLists]

\* the handlers' case 'search_nodes'
SearchNodes(query) ==
  /\ searchLog' = [searched |-> TRUE, query |-> query,
                   ms |-> MS_SearchNodes(msGraph, query),
                   cf |-> CF_SearchNodes(cfGraph, query)]
  /\ UNCHANGED <<fsVars, graphVars, compVars, msFile, msInitialized, laterVars>>

NextSearch ==
  \/ \E entity \in SearchEntities : CreateEntities(entity)
  \/ \E query \in SearchQueries : SearchNodes(query)

SpecSearch == InitGraph /\ [][NextSearch]_vars

(***************************************************************************)
(* The filesystem-to-graph bridge of both servers with a graph: the        *)
(* composite server (built-in graph) and FilesystemServerWithMemory        *)
(* (MemoryServer behind the MemoryClient), given the same calls.           *)
(***************************************************************************)
MaxAccesses == 3    \* file tool calls handled by each server

\* /ab/f is a text that quotes the entity type filesystem_file; every other
\* file holds FileContent
ContentOf(realPath) ==
  IF realPath = <<SegAB, SegF>> THEN <<"filesystem_file">> ELSE FileContent

\* the raw paths given to read_file and list_directory: /a/f, /ab/f, /ab/l,
\* /f, /a
AccessPaths == {<<SegA, SegF>>, <<SegAB, SegF>>, <<SegAB, SegL>>, <<SegF>>,
                <<SegA>>}

\* recentFiles.filter(f => f.observations.some(...)) on the results of
\* memoryClient.searchNodes('filesystem_file')
WM_RecentlyAccessed(g, t) ==
  SelectSeq(MS_SearchNodes(g, <<"filesystem_file">>),
            LAMBDA f :
              \E k \in 1..Len(g[IndexOf(g, f.name)].observations) :
                AccessedSince(g[IndexOf(g, f.name)].observations[k], t))

\* FilesystemServerWithMemory.rememberFileAccess: the graph of the memory
\* server after it
WM_RememberFileAccess(g, filePath, operation, metadata, t) ==
  LET fileEntityName == FileEntityName(filePath)
      directoryEntityName == DirectoryEntityName(Dirname(filePath))
      observations ==
        << <<"Operation: ", operation>>,
           <<"Accessed at: ", Timestamp(t)>>,
           <<"File name: ">> \o Basename(filePath),
           <<"Directory: ">> \o PathStr(Dirname(filePath)) >> \o metadata
      g1 == MS_CreateEntities(g, <<[name |-> fileEntityName,
                                    entityType |-> <<"filesystem_file">>,
                                    observations |-> observations]>>)
      g2 == MS_CreateRelations(g1, <<Relation(directoryEntityName, fileEntityName,
                                              <<"contains">>)>>)
      recentlyAccessed == WM_RecentlyAccessed(g2, t)
  IN IF Len(recentlyAccessed) > 1
     THEN MS_CreateRelations(g2,
            <<Relation(fileEntityName,
                       recentlyAccessed[Len(recentlyAccessed) - 1].name,
                       <<"accessed_after">>)>>)
     ELSE g2

\* one file tool call handled by both servers: validatePath, the
\* operating-system call, rememberFileAccess; the composite server runs
\* ensureInitialized first.  A memory file that cannot be written is logged
\* and nothing else.
AccessTool(op, targetPath, kind, operation, metadata) ==
  LET resolvedPath == Resolve(targetPath)
      loaded == IF isInitialized THEN cfGraph ELSE graphFile.entities
      initSaves == IF isInitialized THEN <<>>
                   ELSE InitializeAllowedDirectories(loaded, allowedDirectories, now)
      afterInit == Last(initSaves, loaded)
      allowed == IsAllowed(resolvedPath, allowedDirectories)
      ok == allowed /\ Stat(resolvedPath) \in kind
      bridgeSaves ==
        BridgeOnSuccess(ok, RememberFileAccess(afterInit, targetPath, operation,
                                               metadata, now))
      saves == initSaves \o bridgeSaves
  IN /\ calls < MaxAccesses
     /\ calls' = calls + 1
     /\ isInitialized' = TRUE
     /\ cfGraph' = Last(bridgeSaves, afterInit)
     /\ msGraph' = IF ok /\ memoryEnabled
                   THEN WM_RememberFileAccess(msGraph, targetPath, operation,
                                              metadata, now)
                   ELSE msGraph
     /\ \E saved \in BOOLEAN :
          /\ graphFile' = FileAfter(graphFile, saves, saved)
          /\ msFile' = FileAfter(msFile, IF ok THEN <<msGraph'>> ELSE <<>>, saved)
     /\ accessLog' =
          IF ok
          THEN [touched |-> Append(accessLog.touched,
                                   [path |-> targetPath, op |-> op, at |-> now]),
                cfBefore |-> afterInit, msBefore |-> msGraph]
          ELSE accessLog
     /\ lastCall' =
          IF ~allowed
          THEN Call(op, resolvedPath, TRUE, "access denied", allowedDirectories,
                    allowedDirectories, {})
          ELSE IF ok
          THEN Call(op, resolvedPath, FALSE, "ok", allowedDirectories,
                    allowedDirectories, {RealPath(resolvedPath)})
          ELSE Call(op, resolvedPath, TRUE, "failed", allowedDirectories,
                    allowedDirectories, {})
     /\ UNCHANGED <<allowedDirectories, configFile, loadState, loadBuf,
                    startupLog, graphCall, now, bridgeLog, memoryEnabled,
                    memoryUp, msInitialized, searchLog, editVars, restVars>>

AC_ReadFile(filePath) ==
  AccessTool("read_file", filePath, {"file"}, "read",
             <<SizeOf(ContentOf(RealPath(Resolve(filePath)))),
               <<"Content preview: ">> \o ContentOf(RealPath(Resolve(filePath)))>>)

AC_ListDirectory(dirPath) ==
  AccessTool("list_directory", dirPath, {"dir"}, "list_directory",
             << <<"Is directory: true">> >>)

\* both servers started with /a and /ab and no memory file: start() of
\* FilesystemServerWithMemory has run initializeMemory, the composite server
\* initialises on its first call
InitAccess ==
  /\ allowedDirectories = ConstructorDirs(<<<<SegA>>, <<SegAB>>>>)
  /\ configFile = Absent
  /\ loadState = "done"
  /\ loadBuf = Absent
  /\ lastCall = NoCall
  /\ startupLog = NoLog
  /\ msGraph = RememberAllowedDirectories(<<>>, allowedDirectories, 0)
  /\ msFile = MemoryFile(msGraph)
  /\ msInitialized = TRUE
  /\ memoryEnabled = TRUE
  /\ memoryUp = TRUE
  /\ cfGraph = <<>>
  /\ graphFile = NoFile
  /\ isInitialized = FALSE
  /\ graphCall = NoGraphCall
  /\ searchLog = NoSearch
  /\ NoLater
  /\ now = 0
  /\ calls = 0
  /\ bridgeLog = NoBridgeLog

NextAccess ==
  \/ Tick
  \/ \E filePath \in AccessPaths : AC_ReadFile(filePath)
  \/ \E dirPath \in AccessPaths : AC_ListDirectory(dirPath)

SpecAccess == InitAccess /\ [][NextAccess]_vars

(***************************************************************************)
(* edit_file of FilesystemServer and of the composite server               *)
(***************************************************************************)
MaxEdits == 2       \* edits of one edit_file call
MaxEditCalls == 2   \* edit_file calls handled by each server

\* the position of the first occurrence of sub in str, 0 when there is none
\* (String.prototype.indexOf, plus one)
FirstIndex(str, sub) ==
  LET S == {i \in 1..(Len(str) - Len(sub) + 1) : SubSeq(str, i, i + Len(sub) - 1) = sub}
  IN IF S = {} THEN 0 ELSE CHOOSE i \in S : \A j \in S : i <= j

RECURSIVE Expand(_, _)
\* the replacement string of String.prototype.replace with a string pattern:
\* $$ stands for $, $& for the matched text
Expand(newText, matched) ==
  IF newText = <<>> THEN <<>>
  ELSE IF Len(newText) >= 2 /\ newText[1] = "$" /\ newText[2] = "$"
       THEN <<"$">> \o Expand(SubSeq(newText, 3, Len(newText)), matched)
  ELSE IF Len(newText) >= 2 /\ newText[1] = "$" /\ newText[2] = "&"
       THEN matched \o Expand(SubSeq(newText, 3, Len(newText)), matched)
  ELSE <<newText[1]>> \o Expand(Tail(newText), matched)

\* modifiedContent.replace(edit.oldText, edit.newText): the first occurrence
Replace(content, oldText, newText) ==
  LET i == FirstIndex(content, oldText)
  IN SubSeq(content, 1, i - 1) \o Expand(newText, oldText)
       \o SubSeq(content, i + Len(oldText), Len(content))

RECURSIVE ApplyEdits(_, _)
\* the loop over edits: it throws at the first edit whose oldText the
\* content does not include
ApplyEdits(content, edits) ==
  IF edits = <<>> THEN [ok |-> TRUE, text |-> content]
  ELSE IF ~Includes(content, Head(edits).oldText)
       THEN [ok |-> FALSE, text |-> content]
       ELSE ApplyEdits(Replace(content, Head(edits).oldText, Head(edits).newText),
                       Tail(edits))

\* c -> ec, e -> (nothing), c -> $$&
EditInputs ==
  {[oldText |-> <<"c">>, newText |-> <<"e", "c">>],
   [oldText |-> <<"e">>, newText |-> <<>>],
   [oldText |-> <<"c">>, newText |-> <<"$", "$", "&">>]}

EditLists == SeqsUpTo(EditInputs, MaxEdits)

\* the raw paths given to edit_file: /a/f and /ab/f (outside)
EditPaths == {<<SegA, SegF>>, <<SegAB, SegF>>}

\* what is on the disk after editFile: fs.writeFile is in the else branch
\* of if (dryRun)
EditWrites_Always(dryRun, originalContent, modifiedContent) == modifiedContent
EditWrites(dryRun, originalContent, modifiedContent) ==
  IF dryRun THEN originalContent ELSE modifiedContent

\* the result of the call: a denied path, a failed read or edit, or success
EditCall(filePath, allowed, ok) ==
  IF ~allowed
  THEN Call("edit_file", Resolve(filePath), TRUE, "access denied",
            allowedDirectories, allowedDirectories, {})
  ELSE IF ok
  THEN Call("edit_file", Resolve(filePath), FALSE, "ok", allowedDirectories,
            allowedDirectories, {RealPath(Resolve(filePath))})
  ELSE Call("edit_file", Resolve(filePath), TRUE, "failed", allowedDirectories,
            allowedDirectories, {})

\* FilesystemServer: the handler's case 'edit_file'
FS_EditFile(filePath, edits, dryRun) ==
  LET resolvedPath == Resolve(filePath)
      allowed == IsAllowed(resolvedPath, allowedDirectories)
      applied == ApplyEdits(fileText, edits)
      ok == allowed /\ Stat(resolvedPath) = "file" /\ applied.ok
  IN /\ calls < MaxEditCalls
     /\ calls' = calls + 1
     /\ fileText' = IF ok THEN EditWrites(dryRun, fileText, applied.text)
                    ELSE fileText
     /\ lastCall' = EditCall(filePath, allowed, ok)
     /\ editLog' = [server |-> "filesystem", dryRun |-> dryRun, first |-> FALSE,
                    edits |-> edits, textBefore |-> fileText,
                    graphBefore |-> cfGraph, graphAfterInit |-> cfGraph,
                    original |-> IF ok THEN Len(fileText) ELSE 0,
                    modified |-> IF ok THEN Len(applied.text) ELSE 0]
     /\ UNCHANGED <<allowedDirectories, configFile, loadState, loadBuf,
                    startupLog, graphVars, isInitialized, graphFile, now,
                    bridgeLog, memoryEnabled, memoryUp, msFile, msInitialized,
                    searchLog, accessLog, restVars>>

\* the composite server: ensureInitialized, then the case 'edit_file'; an
\* edit that is written goes through rememberFileAccess
CF_EditFile(filePath, edits, dryRun) ==
  LET resolvedPath == Resolve(filePath)
      loaded == IF isInitialized THEN cfGraph ELSE graphFile.entities
      initSaves == IF isInitialized THEN <<>>
                   ELSE InitializeAllowedDirectories(loaded, allowedDirectories, now)
      afterInit == Last(initSaves, loaded)
      allowed == IsAllowed(resolvedPath, allowedDirectories)
      applied == ApplyEdits(fileText, edits)
      ok == allowed /\ Stat(resolvedPath) = "file" /\ applied.ok
      bridgeSaves ==
        BridgeOnSuccess(ok /\ EditWrites(dryRun, FALSE, TRUE),
                        RememberFileAccess(afterInit, filePath, "edit",
                                           <<SizeOf(applied.text)>>, now))
      saves == initSaves \o bridgeSaves
  IN /\ calls < MaxEditCalls
     /\ calls' = calls + 1
     /\ isInitialized' = TRUE
     /\ fileText' = IF ok THEN EditWrites(dryRun, fileText, applied.text)
                    ELSE fileText
     /\ cfGraph' = Last(bridgeSaves, afterInit)
     /\ \E saved \in BOOLEAN : graphFile' = FileAfter(graphFile, saves, saved)
     /\ lastCall' = EditCall(filePath, allowed, ok)
     /\ editLog' = [server |-> "composite", dryRun |-> dryRun,
                    first |-> ~isInitialized,
                    edits |-> edits, textBefore |-> fileText,
                    graphBefore |-> loaded, graphAfterInit |-> afterInit,
                    original |-> IF ok THEN Len(fileText) ELSE 0,
                    modified |-> IF ok THEN Len(applied.text) ELSE 0]
     /\ UNCHANGED <<allowedDirectories, configFile, loadState, loadBuf,
                    startupLog, msGraph, graphCall, now, bridgeLog,
                    memoryEnabled, memoryUp, msFile, msInitialized, searchLog,
                    accessLog, restVars>>

\* a server started with the directory /a and no sidecar; /a/f holds c
InitEdit ==
  /\ allowedDirectories = ConstructorDirs(<<<<SegA>>>>)
  /\ configFile = Absent
  /\ loadState = "done"
  /\ loadBuf = Absent
  /\ lastCall = NoCall
  /\ startupLog = NoLog
  /\ NoMemoryServer
  /\ isInitialized = FALSE
  /\ graphFile \in MemoryFiles
  /\ now = 0
  /\ calls = 0
  /\ bridgeLog = NoBridgeLog
  /\ memoryEnabled = FALSE
  /\ memoryUp = FALSE

NextEdit ==
  \/ \E filePath \in EditPaths, edits \in EditLists, dryRun \in BOOLEAN :
       FS_EditFile(filePath, edits, dryRun)
  \/ \E filePath \in EditPaths, edits \in EditLists, dryRun \in BOOLEAN :
       CF_EditFile(filePath, edits, dryRun)

SpecEdit == InitEdit /\ [][NextEdit]_vars

(***************************************************************************)
(* add_allowed_directory of the composite server                           *)
(***************************************************************************)

\* the relations given to the composite server's create_relations tool:
\* /a contains /ab, /ab is a sibling of /a
DirectoryRelations ==
  {Relation(DirectoryEntityName(<<SegA>>), DirectoryEntityName(<<SegAB>>),
            <<"contains">>),
   Relation(DirectoryEntityName(<<SegAB>>), DirectoryEntityName(<<SegA>>),
            <<"sibling_directory">>)}

\* ensureInitialized of the composite server: the graph it leaves and the
\* graphs it saved
EnsureInitialized ==
  LET loaded == IF isInitialized THEN cfGraph ELSE graphFile.entities
      initSaves == IF isInitialized THEN <<>>
                   ELSE InitializeAllowedDirectories(loaded, allowedDirectories, now)
  IN [graph |-> Last(initSaves, loaded), saves |-> initSaves]

\* the handler's case 'create_relations' of the composite server
CF_CreateRelationsTool(r) ==
  LET init == EnsureInitialized
      g == CF_CreateRelations(init.graph, <<r>>)
  IN /\ calls < MaxCalls
     /\ calls' = calls + 1
     /\ isInitialized' = TRUE
     /\ cfGraph' = g
     /\ \E saved \in BOOLEAN :
          graphFile' = FileAfter(graphFile, Append(init.saves, g), saved)
     /\ UNCHANGED <<fsVars, msGraph, graphCall, now, bridgeLog, memoryEnabled,
                    memoryUp, storeVars>>

\* the handler's case 'add_allowed_directory' of the composite server
CF_AddAllowedDirectory(dirPath) ==
  LET resolvedPath == Resolve(dirPath)
      init == EnsureInitialized
      pushed == Append(allowedDirectories, resolvedPath)
      g == CF_CreateEntities(init.graph,
             <<[name |-> DirectoryEntityName(resolvedPath),
                entityType |-> <<"filesystem_directory">>,
                observations |->
                  << <<"Allowed directory: ">> \o PathStr(resolvedPath),
                     <<"Resolved path: ">> \o PathStr(Resolve(resolvedPath)),
                     <<"Added dynamically at: ", Timestamp(now)>> >>]>>)
      Result(isError, text, after) ==
        Call("add_allowed_directory", resolvedPath, isError, text,
             allowedDirectories, after, {})
  IN /\ calls < MaxCalls
     /\ calls' = calls + 1
     /\ NoteCall
     /\ isInitialized' = TRUE
     /\ IF Stat(resolvedPath) # "dir"
        THEN /\ lastCall' = Result(TRUE, "does not exist", allowedDirectories)
             /\ cfGraph' = init.graph
             /\ \E saved \in BOOLEAN :
                  graphFile' = FileAfter(graphFile, init.saves, saved)
             /\ UNCHANGED <<allowedDirectories, configFile>>
        ELSE IF AlreadyAllowed(allowedDirectories, resolvedPath)
        THEN /\ lastCall' = Result(FALSE, "already in list", allowedDirectories)
             /\ cfGraph' = init.graph
             /\ \E saved \in BOOLEAN :
                  graphFile' = FileAfter(graphFile, init.saves, saved)
             /\ UNCHANGED <<allowedDirectories, configFile>>
        ELSE \/ /\ allowedDirectories' = pushed
                /\ configFile' = SaveConfiguration(pushed)
                /\ lastCall' = Result(FALSE, "added", pushed)
                /\ cfGraph' = g
                /\ \E saved \in BOOLEAN :
                     graphFile' = FileAfter(graphFile, Append(init.saves, g), saved)
             \* saveConfiguration throws
             \/ /\ allowedDirectories' = pushed
                /\ configFile' = configFile
                /\ lastCall' = Result(TRUE, "save failed", pushed)
                /\ cfGraph' = init.graph
                /\ \E saved \in BOOLEAN :
                     graphFile' = FileAfter(graphFile, init.saves, saved)
     /\ UNCHANGED <<loadState, loadBuf, msGraph, graphCall, now, bridgeLog,
                    memoryEnabled, memoryUp, storeVars>>

NextAddDir ==
  \/ LoadRead
  \/ LoadMerge
  \/ Tick
  \/ \E r \in DirectoryRelations : CF_CreateRelationsTool(r)
  \/ \E dirPath \in DirInputs : CF_AddAllowedDirectory(dirPath)

SpecAddDir == InitComp /\ [][NextAddDir]_vars

(***************************************************************************)
(* MCPClient and the MemoryClient that owns one                            *)
(***************************************************************************)

\* the fields after MCPClient.connect: this.client and this.transport are
\* assigned before client.connect(transport) is awaited; refreshTools
\* catches a failing listTools and leaves tools empty
Connected(c, connected, listed) ==
  [c EXCEPT !.client = TRUE, !.transport = TRUE,
            !.live = connected,
            !.tools = IF connected THEN listed ELSE c.tools]

MaxConnects == 2    \* connect calls on the client

\* the outcome of a call, the outcome of the most recent connect, whether
\* disconnect was called since, and the number of connect calls so far
ClientCall(op, threw, text, returned, lastConnect, disconnected) ==
  [op |-> op, threw |-> threw, text |-> text, returned |-> returned,
   lastConnect |-> lastConnect, disconnected |-> disconnected,
   connects |-> clientLog.connects + (IF op = "connect" THEN 1 ELSE 0)]

\* MCPClient.connect: client.connect(transport) succeeds or throws
MCP_Connect ==
  /\ clientLog.connects < MaxConnects
  /\ \E connected, listed \in BOOLEAN :
       /\ mcpClient' = Connected(mcpClient, connected, listed)
       /\ clientLog' = ClientCall("connect", ~connected,
                                  IF connected THEN "" ELSE "connect failed",
                                  FALSE,
                                  IF connected THEN "ok" ELSE "threw", FALSE)
  /\ UNCHANGED <<fsVars, graphVars, compVars, msFile, msInitialized, searchLog,
                 accessLog, editVars, raceVars>>

\* MemoryClient.connect: isConnected is set after the await
MC_Connect ==
  /\ clientLog.connects < MaxConnects
  /\ \E connected, listed \in BOOLEAN :
       /\ mcpClient' = [Connected(mcpClient, connected, listed)
                          EXCEPT !.isConnected = connected \/ mcpClient.isConnected]
       /\ clientLog' = ClientCall("connect", ~connected,
                                  IF connected THEN "" ELSE "connect failed",
                                  FALSE,
                                  IF connected THEN "ok" ELSE "threw", FALSE)
  /\ UNCHANGED <<fsVars, graphVars, compVars, msFile, msInitialized, searchLog,
                 accessLog, editVars, raceVars>>

\* MCPClient.disconnect
MCP_Disconnect ==
  /\ mcpClient' = [mcpClient EXCEPT !.client = FALSE, !.transport = FALSE,
                                    !.live = FALSE]
  /\ clientLog' = ClientCall("disconnect", FALSE, "", FALSE,
                             clientLog.lastConnect, TRUE)
  /\ UNCHANGED <<fsVars, graphVars, compVars, msFile, msInitialized, searchLog,
                 accessLog, editVars, raceVars>>

\* MemoryClient.disconnect: if (this.isConnected) { mcpClient.disconnect() }
MC_Disconnect ==
  /\ mcpClient' = IF mcpClient.isConnected
                  THEN [mcpClient EXCEPT !.client = FALSE, !.transport = FALSE,
                                         !.live = FALSE, !.isConnected = FALSE]
                  ELSE mcpClient
  /\ clientLog' = ClientCall("disconnect", FALSE, "", FALSE,
                             clientLog.lastConnect, TRUE)
  /\ UNCHANGED <<fsVars, graphVars, compVars, msFile, msInitialized, searchLog,
                 accessLog, editVars, raceVars>>

\* MCPClient.callTool
MCP_CallTool ==
  /\ clientLog' =
       IF ~mcpClient.client
       THEN ClientCall("callTool", TRUE, "Client not connected", FALSE,
                       clientLog.lastConnect, clientLog.disconnected)
       ELSE IF ~mcpClient.live
       THEN ClientCall("callTool", TRUE, "call failed", FALSE,
                       clientLog.lastConnect, clientLog.disconnected)
       ELSE ClientCall("callTool", FALSE, "", FALSE,
                       clientLog.lastConnect, clientLog.disconnected)
  /\ UNCHANGED <<fsVars, graphVars, compVars, msFile, msInitialized, searchLog,
                 accessLog, editVars, raceVars, mcpClient>>

\* a tool method of MemoryClient: ensureConnected, then mcpClient.callTool
MC_CallTool ==
  /\ clientLog' =
       IF ~mcpClient.isConnected
       THEN ClientCall("memoryTool", TRUE, "Memory client not connected", FALSE,
                       clientLog.lastConnect, clientLog.disconnected)
       ELSE IF ~mcpClient.client
       THEN ClientCall("memoryTool", TRUE, "Client not connected", FALSE,
                       clientLog.lastConnect, clientLog.disconnected)
       ELSE IF ~mcpClient.live
       THEN ClientCall("memoryTool", TRUE, "call failed", FALSE,
                       clientLog.lastConnect, clientLog.disconnected)
       ELSE ClientCall("memoryTool", FALSE, "", FALSE,
                       clientLog.lastConnect, clientLog.disconnected)
  /\ UNCHANGED <<fsVars, graphVars, compVars, msFile, msInitialized, searchLog,
                 accessLog, editVars, raceVars, mcpClient>>

\* MCPClient.isConnected
MCP_IsConnected ==
  /\ clientLog' = ClientCall("isConnected", FALSE, "", mcpClient.client,
                             clientLog.lastConnect, clientLog.disconnected)
  /\ UNCHANGED <<fsVars, graphVars, compVars, msFile, msInitialized, searchLog,
                 accessLog, editVars, raceVars, mcpClient>>

\* the server process of the client exits
ServerExits ==
  /\ mcpClient.live
  /\ mcpClient' = [mcpClient EXCEPT !.live = FALSE]
  /\ UNCHANGED <<fsVars, graphVars, compVars, msFile, msInitialized, searchLog,
                 accessLog, editVars, raceVars, clientLog>>

\* a new MemoryClient with its MCPClient, next to a server that is not
\* looked at
InitClient ==
  /\ allowedDirectories = ConstructorDirs(<<<<SegA>>>>)
  /\ configFile = Absent
  /\ loadState = "done"
  /\ loadBuf = Absent
  /\ lastCall = NoCall
  /\ startupLog = NoLog
  /\ NoMemoryServer
  /\ NoComposite

NextClient ==
  \/ MCP_Connect
  \/ MC_Connect
  \/ MCP_Disconnect
  \/ MC_Disconnect
  \/ MCP_CallTool
  \/ MC_CallTool
  \/ MCP_IsConnected
  \/ ServerExits

SpecClient == InitClient /\ [][NextClient]_vars

(***************************************************************************)
(* ensureInitialized under concurrent tool calls.  A handler runs until    *)
(* it awaits input or output; the handler of another request may run       *)
(* while it waits.  The positions of a call: reading (awaiting readFile),  *)
(* read (readFile has returned, the continuation has not run), initsave    *)
(* (awaiting a save of the initialisation), saving (the tool has changed   *)
(* the graph and awaits saveMemoryGraph).                                  *)
(***************************************************************************)
MaxArrivals == 3    \* create_entities calls sent to the two servers

GraphServers == {"ms", "cf"}

\* the entity a create_entities call of the race creates
RaceEntity(name) ==
  <<[name |-> name, entityType |-> <<"t">>, observations |-> <<>>]>>

\* the synchronous part of createEntities
RaceTool(server, g, name) ==
  IF server = "ms" THEN MS_CreateEntities(g, RaceEntity(name))
  ELSE CF_CreateEntities(g, RaceEntity(name))

InitializedOf(server) == IF server = "ms" THEN msInitialized ELSE isInitialized

GraphOf(server) == IF server = "ms" THEN msGraph ELSE cfGraph

FileOf(server) == IF server = "ms" THEN msFile ELSE graphFile

\* the variables of one server change, those of the other stay
SetServer(server, g, file, initialized) ==
  /\ msGraph' = IF server = "ms" THEN g ELSE msGraph
  /\ msFile' = IF server = "ms" THEN file ELSE msFile
  /\ msInitialized' = IF server = "ms" THEN initialized ELSE msInitialized
  /\ cfGraph' = IF server = "cf" THEN g ELSE cfGraph
  /\ graphFile' = IF server = "cf" THEN file ELSE graphFile
  /\ isInitialized' = IF server = "cf" THEN initialized ELSE isInitialized

\* a tool has changed the graph of the server
Mutated(server) ==
  [raceLog EXCEPT !.msMutated = @ \/ server = "ms",
                  !.cfMutated = @ \/ server = "cf"]

\* loadMemoryGraph has assigned this.memoryGraph
Loaded(server) ==
  [raceLog EXCEPT
     !.msLoads = @ + (IF server = "ms" THEN 1 ELSE 0),
     !.cfLoads = @ + (IF server = "cf" THEN 1 ELSE 0),
     !.lateLoad = @ \/ (server = "ms" /\ raceLog.msMutated)
                    \/ (server = "cf" /\ raceLog.cfMutated)]

RaceFrame ==
  UNCHANGED <<fsVars, graphCall, now, bridgeLog, memoryEnabled, memoryUp,
              searchLog, accessLog, editVars, clientVars>>

\* a request arrives: the handler runs ensureInitialized; when the server is
\* initialised it goes on to createEntities, up to its await
Arrive(c, server, name) ==
  /\ inflight[c].pc = "idle"
  /\ calls < MaxArrivals
  /\ calls' = calls + 1
  /\ IF InitializedOf(server)
     THEN /\ inflight' = [inflight EXCEPT ![c] =
                            [server |-> server, pc |-> "saving", name |-> name,
                             buf |-> NoFile]]
          /\ SetServer(server, RaceTool(server, GraphOf(server), name),
                       FileOf(server), TRUE)
          /\ raceLog' = Mutated(server)
     ELSE /\ inflight' = [inflight EXCEPT ![c] =
                            [server |-> server, pc |-> "reading", name |-> name,
                             buf |-> NoFile]]
          /\ UNCHANGED <<msGraph, cfGraph, msFile, graphFile, msInitialized,
                         isInitialized, raceLog>>
  /\ RaceFrame

\* fs.readFile of loadMemoryGraph completes
ReadDone(c) ==
  /\ inflight[c].pc = "reading"
  /\ inflight' = [inflight EXCEPT ![c].pc = "read",
                                  ![c].buf = FileOf(inflight[c].server)]
  /\ UNCHANGED <<msGraph, cfGraph, msFile, graphFile, msInitialized,
                 isInitialized, raceLog, calls>>
  /\ RaceFrame

\* the continuation of loadMemoryGraph: this.memoryGraph = JSON.parse(data),
\* or the empty graph.  MemoryServer with a file goes on to isInitialized =
\* true and createEntities; without one it awaits saveMemoryGraph.  The
\* composite server goes on to initializeAllowedDirectories, up to its save.
LoadDone(c) ==
  LET server == inflight[c].server
      loaded == LoadMemoryGraph(inflight[c].buf).graph
  IN /\ inflight[c].pc = "read"
     /\ IF server = "ms" /\ inflight[c].buf.exists
        THEN /\ SetServer(server, RaceTool(server, loaded, inflight[c].name),
                          FileOf(server), TRUE)
             /\ inflight' = [inflight EXCEPT ![c].pc = "saving", ![c].buf = NoFile]
             /\ raceLog' = [Loaded(server) EXCEPT !.msMutated = TRUE]
        ELSE /\ SetServer(server,
                          IF server = "ms" THEN loaded
                          ELSE Last(InitializeAllowedDirectories(
                                      loaded, allowedDirectories, now), loaded),
                          FileOf(server), InitializedOf(server))
             /\ inflight' = [inflight EXCEPT ![c].pc = "initsave", ![c].buf = NoFile]
             /\ raceLog' = Loaded(server)
     /\ UNCHANGED calls
     /\ RaceFrame

\* the save of the initialisation completes (or fails, which is logged);
\* the handler goes on to isInitialized = true and createEntities
InitSave(c) ==
  LET server == inflight[c].server
  IN /\ inflight[c].pc = "initsave"
     /\ \E saved \in BOOLEAN :
          SetServer(server, RaceTool(server, GraphOf(server), inflight[c].name),
                    FileAfter(FileOf(server), <<GraphOf(server)>>, saved), TRUE)
     /\ inflight' = [inflight EXCEPT ![c].pc = "saving"]
     /\ raceLog' = Mutated(server)
     /\ UNCHANGED calls
     /\ RaceFrame

\* saveMemoryGraph of createEntities completes (or fails, which is logged)
\* and the result is returned
SaveDone(c) ==
  LET server == inflight[c].server
  IN /\ inflight[c].pc = "saving"
     /\ \E saved \in BOOLEAN :
          SetServer(server, GraphOf(server),
                    FileAfter(FileOf(server), <<GraphOf(server)>>, saved),
                    InitializedOf(server))
     /\ inflight' = [inflight EXCEPT ![c] = Idle]
     /\ UNCHANGED <<raceLog, calls>>
     /\ RaceFrame

\* a MemoryServer and a composite server (allowed directory /a), each with
\* its memory file, before their first tool call
InitRace ==
  /\ allowedDirectories = ConstructorDirs(<<<<SegA>>>>)
  /\ configFile = Absent
  /\ loadState = "done"
  /\ loadBuf = Absent
  /\ lastCall = NoCall
  /\ startupLog = NoLog
  /\ msGraph = <<>>
  /\ cfGraph = <<>>
  /\ graphCall = NoGraphCall
  /\ msFile \in MemoryFiles
  /\ msInitialized = FALSE
  /\ searchLog = NoSearch
  /\ NoLater
  /\ isInitialized = FALSE
  /\ graphFile = msFile
  /\ now = 0
  /\ calls = 0
  /\ bridgeLog = NoBridgeLog
  /\ memoryEnabled = FALSE
  /\ memoryUp = FALSE

NextRace ==
  \/ \E c \in 1..MaxInflight, server \in GraphServers, name \in EntityNames :
       Arrive(c, server, name)
  \/ \E c \in 1..MaxInflight : ReadDone(c)
  \/ \E c \in 1..MaxInflight : LoadDone(c)
  \/ \E c \in 1..MaxInflight : InitSave(c)
  \/ \E c \in 1..MaxInflight : SaveDone(c)

SpecRace == InitRace /\ [][NextRace]_vars

(***************************************************************************)
(* Properties of the path sandbox and of directory management              *)
(***************************************************************************)

\* C1: validatePath succeeds exactly when the resolved path is an allowed
\* directory or nested under one by whole path segments; otherwise the call
\* fails with "Access denied".
C1_ValidateBySegments ==
  lastCall.op \in FileTools =>
    ((lastCall.text # "access denied") <=>
       IsAllowed_BySegments(lastCall.arg, lastCall.before))

\* C2: the allowed-directory list is never empty.
C2_NeverEmpty == Len(allowedDirectories) >= 1

\* a removal of the only directory was attempted and refused
C2_Witness ==
  /\ lastCall.op = "remove_allowed_directory"
  /\ lastCall.text = "last directory"
  /\ Len(allowedDirectories) = 1

\* C3: remove_allowed_directory(D), when D is the only distinct directory of
\* the list, returns an error and leaves the list exactly as it was.
C3_RemoveSoleLeavesList ==
  (/\ lastCall.op = "remove_allowed_directory"
   /\ Range(lastCall.before) = {lastCall.arg})
  => (lastCall.isError /\ lastCall.after = lastCall.before)

\* C4: when add_allowed_directory or remove_allowed_directory returns an
\* error, the list after the call is the list before the call.
C4_ErrorLeavesList ==
  (/\ lastCall.op \in {"add_allowed_directory", "remove_allowed_directory"}
   /\ lastCall.isError)
  => lastCall.after = lastCall.before

\* C5: the list the first tool call sees holds every constructor directory
\* and every directory of the sidecar, and nothing else.
C5_FirstCallSeesUnion ==
  startupLog.seen =>
    Range(startupLog.list) =
      Range(startupLog.ctorDirs) \cup Range(startupLog.sidecar0.dirs)

\* C6: the allowed-directory list never holds the same path twice.
C6_NoDuplicateDirectories == NoDuplicates(allowedDirectories)

\* C7: a path lexically inside an allowed directory that is a symbolic link
\* to something outside every allowed directory is rejected.
C7_NoSymlinkEscape ==
  (/\ lastCall.op \in FileTools
   /\ IsAllowed_BySegments(lastCall.arg, lastCall.before)
   /\ RealPath(lastCall.arg) # lastCall.arg
   /\ ~IsAllowed_BySegments(RealPath(lastCall.arg), lastCall.before))
  => lastCall.text = "access denied"

(***************************************************************************)
(* Properties of the filesystem-to-graph bridge                            *)
(***************************************************************************)

C9_MemoryFaultNeverFails ==
  (bridgeLog.primaryOk /\ bridgeLog.fault) => ~lastCall.isError

(***************************************************************************)
(* Properties of the knowledge graph                                       *)
(***************************************************************************)

\* the strings of news that are not in old, each once, in order of appearance
FurtherDistinct(old, news) ==
  Dedupe(SelectSeq(news, LAMBDA obs : obs \notin Range(old)), <<>>)

\* C10: create_entities called a second time with the same entity leaves the
\* observation sequence as the first call left it, and a create_entities
\* carrying one further distinct observation appends it at the end of the
\* earlier observations, which keep their order.
C10_CreateEntitiesIdempotent ==
  graphCall.op = "create_entities" =>
    /\ graphCall.repeated =>
         /\ graphCall.msAfter = graphCall.msBefore
         /\ graphCall.cfAfter = graphCall.cfBefore
    /\ \A obs \in ObservationStrings :
         (graphCall.existed
          /\ FurtherDistinct(graphCall.msBefore, graphCall.observations) = <<obs>>)
         => /\ graphCall.msAfter = Append(graphCall.msBefore, obs)
            /\ graphCall.cfAfter = Append(graphCall.cfBefore, obs)

\* C11: no entity's observation list holds the same string twice.
C11_NoDuplicateObservations ==
  /\ \A i \in 1..Len(msGraph) : NoDuplicates(msGraph[i].observations)
  /\ \A i \in 1..Len(cfGraph) : NoDuplicates(cfGraph[i].observations)

\* C15: add_observations on an existing entity reports the number of distinct
\* strings of its input that the entity did not hold, and appends that many.
C15_AddObservationsCount ==
  (graphCall.op = "add_observations" /\ graphCall.existed) =>
    /\ graphCall.ms.count =
         Len(FurtherDistinct(graphCall.msBefore, graphCall.observations))
    /\ graphCall.ms.count = Len(graphCall.msAfter) - Len(graphCall.msBefore)
    /\ graphCall.cf.count =
         Len(FurtherDistinct(graphCall.cfBefore, graphCall.observations))
    /\ graphCall.cf.count = Len(graphCall.cfAfter) - Len(graphCall.cfBefore)

\* C16: a graph tool call whose result reports a failure has isError set.
C16_FailureSetsIsError ==
  /\ graphCall.ms.failed => graphCall.ms.isError
  /\ graphCall.cf.failed => graphCall.cf.isError

\* the entities of g in which some relation's target is no entity of g
Dangling(g) ==
  {i \in 1..Len(g) :
     \E k \in 1..Len(g[i].relations) : ~HasEntity(g, g[i].relations[k].to)}

\* C12: every relation stored in the graph has a `to` that names an entity
\* of the graph.
C12_NoDanglingRelation == Dangling(msGraph) = {} /\ Dangling(cfGraph) = {}

\* no entity of g holds two relations with the same (from, to, relationType)
UniqueTriples(g) ==
  \A i \in 1..Len(g) : NoDuplicates(g[i].relations)

\* every relation of the list is held by its source entity in g
AllHeld(g, relations) ==
  \A k \in 1..Len(relations) :
    /\ HasEntity(g, relations[k].from)
    /\ relations[k] \in Range(g[IndexOf(g, relations[k].from)].relations)

\* C14: no entity holds the same (from, to, relationType) triple twice, and
\* a create_relations whose triples all exist leaves the graph as it was.
C14_UniqueRelations ==
  /\ UniqueTriples(msGraph)
  /\ UniqueTriples(cfGraph)
  /\ graphCall.op = "create_relations" =>
       /\ AllHeld(graphCall.msBefore, graphCall.relations)
            => graphCall.msAfter = graphCall.msBefore
       /\ AllHeld(graphCall.cfBefore, graphCall.relations)
            => graphCall.cfAfter = graphCall.cfBefore

\* a call whose list repeats a new relation, and a call that re-creates
\* relations the graph holds
C14_Witness ==
  /\ graphCall.op = "create_relations"
  /\ Len(graphCall.relations) = 2
  /\ \/ /\ graphCall.relations[1] = graphCall.relations[2]
        /\ ~AllHeld(graphCall.msBefore, graphCall.relations)
        /\ graphCall.relations[1].to \in EntityNames
     \/ /\ graphCall.relations[1] # graphCall.relations[2]
        /\ AllHeld(graphCall.msBefore, graphCall.relations)
        /\ AllHeld(graphCall.cfBefore, graphCall.relations)

(***************************************************************************)
(* Properties of the memory file                                           *)
(***************************************************************************)

\* the entities of g that hold a relation to name
Targeting(g, name) ==
  {i \in 1..Len(g) : \E k \in 1..Len(g[i].relations) : g[i].relations[k].to = name}

\* C13: after delete_entities([X]) no entity holds a relation whose `to` is X.
C13_DeleteStripsRelations ==
  graphCall.op = "delete_entities" =>
    /\ Targeting(msGraph, graphCall.name) = {}
    /\ Targeting(cfGraph, graphCall.name) = {}

\* C18: when a mutating graph tool has returned, the memory file holds the
\* graph the server has in memory.
C18_FileEqualsGraph ==
  graphCall.op \in MutatingTools =>
    /\ ~graphCall.ms.failed => msFile = MemoryFile(msGraph)
    /\ ~graphCall.cf.failed => graphFile = MemoryFile(cfGraph)

\* C19: a graph tool call during which the memory file could not be written
\* reports an error.
C19_SaveFailureReported ==
  graphCall.store.saveFailed =>
    /\ graphCall.ms.failed
    /\ graphCall.cf.failed

\* the tools that succeed on every graph
TotalTools == {"create_entities", "create_relations", "delete_entities",
               "delete_relations"}

\* C20: when the memory file is missing or unparsable at the first call, both
\* servers start from the empty graph and the call is carried out: a tool
\* that succeeds on every graph succeeds.
C20_MissingFileStartsEmpty ==
  (graphCall.store.first /\ graphCall.store.missing) =>
    /\ graphCall.store.msLoaded = <<>>
    /\ graphCall.store.cfLoaded = <<>>
    /\ msInitialized /\ isInitialized
    /\ graphCall.op \in TotalTools =>
         /\ ~graphCall.ms.failed /\ ~graphCall.ms.isError
         /\ ~graphCall.cf.failed /\ ~graphCall.cf.isError
    /\ graphCall.op = "create_entities" =>
         /\ HasEntity(msGraph, graphCall.name)
         /\ HasEntity(cfGraph, graphCall.name)

\* the first call found no memory file and created an entity
C20_Witness ==
  /\ graphCall.store.first
  /\ graphCall.store.missing
  /\ graphCall.op = "create_entities"
  /\ HasEntity(msGraph, graphCall.name)
  /\ HasEntity(cfGraph, graphCall.name)

(***************************************************************************)
(* Properties of search_nodes                                              *)
(***************************************************************************)

\* the entity of g called name
NodeOf(g, name) == g[IndexOf(g, name)]

\* node matches the query through its observations and through nothing else
OnlyObservations(node, query) ==
  /\ ~Matches(node.name, query)
  /\ ~Matches(node.entityType, query)
  /\ RelationScore(node.relations, query) = 0
  /\ ObservationScore(node.observations, query, 1) > 0

\* in the results of a search for an entity's exact name that entity scores
\* strictly more than every entity matched through observations only
ExactNameFirst(g, results, query) ==
  \A i, j \in 1..Len(results) :
    (results[i].name = query /\ OnlyObservations(NodeOf(g, results[j].name), query))
      => results[i].score > results[j].score

\* C17: for a query equal to an entity's exact name that entity's score is
\* strictly greater than the score of every entity that matches only through
\* observations, however many of them match; no result has score 0.
C17_ExactNameOutranksObservations ==
  searchLog.searched =>
    /\ \A i \in 1..Len(searchLog.ms) : searchLog.ms[i].score > 0
    /\ \A i \in 1..Len(searchLog.cf) : searchLog.cf[i].score > 0
    /\ ExactNameFirst(msGraph, searchLog.ms, searchLog.query)
    /\ ExactNameFirst(cfGraph, searchLog.cf, searchLog.query)

(***************************************************************************)
(* Properties of the filesystem-to-graph bridge                            *)
(***************************************************************************)

\* the entity called from holds a relation of this type to the entity to
Holds(g, from, to, relationType) ==
  /\ HasEntity(g, from)
  /\ Relation(from, to, relationType) \in Range(g[IndexOf(g, from)].relations)

\* the accessed_after targets the entity called name holds in g
AccessedAfter(g, name) ==
  IF HasEntity(g, name)
  THEN {r.to : r \in {q \in Range(g[IndexOf(g, name)].relations) :
                        q.relationType = <<"accessed_after">>}}
  ELSE {}

\* two successful reads of different files on the same day and nothing else
TwoReads ==
  /\ Len(accessLog.touched) = 2
  /\ accessLog.touched[1].op = "read_file"
  /\ accessLog.touched[2].op = "read_file"
  /\ accessLog.touched[1].path # accessLog.touched[2].path
  /\ accessLog.touched[2].at - accessLog.touched[1].at < DayTicks

\* C21: after read_file(A) then read_file(B), A # B, within 24 hours and with
\* no file entity before, file:B holds accessed_after to file:A.
C21_SecondReadPointsToFirst ==
  TwoReads =>
    /\ Holds(cfGraph, FileEntityName(accessLog.touched[2].path),
             FileEntityName(accessLog.touched[1].path), <<"accessed_after">>)
    /\ Holds(msGraph, FileEntityName(accessLog.touched[2].path),
             FileEntityName(accessLog.touched[1].path), <<"accessed_after">>)

\* the position in the log of the latest access to a file other than the
\* one touched last (0 when there is none)
PreviousDistinct ==
  LET t == accessLog.touched
      S == {i \in 1..Len(t) : t[i].path # t[Len(t)].path}
  IN IF S = {} THEN 0 ELSE CHOOSE i \in S : \A j \in S : j <= i

\* C25: the accessed_after edge the latest operation adds goes from the file
\* just touched to the distinct file touched immediately before it.
C25_EdgeToSecondMostRecent ==
  LET t == accessLog.touched
      p == FileEntityName(t[Len(t)].path)
      q == FileEntityName(t[PreviousDistinct].path)
  IN (PreviousDistinct > 0 /\ t[Len(t)].at - t[1].at < DayTicks) =>
       /\ AccessedAfter(cfGraph, p) \ AccessedAfter(accessLog.cfBefore, p) \subseteq {q}
       /\ AccessedAfter(msGraph, p) \ AccessedAfter(accessLog.msBefore, p) \subseteq {q}
       /\ q \in AccessedAfter(cfGraph, p)
       /\ q \in AccessedAfter(msGraph, p)

\* C28: no entity holds an accessed_after relation to itself.
C28_NoSelfAccessedAfter ==
  /\ \A i \in 1..Len(cfGraph) : cfGraph[i].name \notin AccessedAfter(cfGraph, cfGraph[i].name)
  /\ \A i \in 1..Len(msGraph) : msGraph[i].name \notin AccessedAfter(msGraph, msGraph[i].name)

(***************************************************************************)
(* Properties of edit_file                                                 *)
(***************************************************************************)

\* the most recent call was an edit_file with dryRun set
DryRun == editLog.server # "none" /\ editLog.dryRun

\* a dry run that succeeded reports the length of the text the edits give,
\* applied in order to the text on the disk
ReportsWouldBeLength ==
  ~lastCall.isError =>
    /\ editLog.original = Len(editLog.textBefore)
    /\ editLog.modified = Len(ApplyEdits(editLog.textBefore, editLog.edits).text)

C23_AddedDirectoryIsTyped ==
  (lastCall.op = "add_allowed_directory" /\ lastCall.text = "added") =>
    /\ HasEntity(cfGraph, DirectoryEntityName(lastCall.arg))
    /\ cfGraph[IndexOf(cfGraph, DirectoryEntityName(lastCall.arg))].entityType
         = <<"filesystem_directory">>

ResultNames(results) == [i \in 1..Len(results) |-> results[i].name]

\* C26: after the same graph tool calls from the empty graph MemoryServer
\* and the composite server hold the same graph, and search_nodes returns
\* the same entities in the same order on both.
C26_StoresAgree ==
  /\ msGraph = cfGraph
  /\ searchLog.searched => ResultNames(searchLog.ms) = ResultNames(searchLog.cf)

(***************************************************************************)
(* Removal of a directory and the constructor's configuration load         *)
(***************************************************************************)

\* the most recent tool call removed a directory
Removed == lastCall.op = "remove_allowed_directory" /\ lastCall.text = "removed"

\* p is in the directory dir or below it and in or below no other directory
\* of the list
OnlyUnder(p, dir, list) ==
  /\ NestedUnder(p, dir)
  /\ \A i \in 1..Len(list) : list[i] # dir => ~NestedUnder(p, list[i])

\* C27: from the success of remove_allowed_directory(D) until the next tool
\* call D is not in the allowed list and validatePath rejects every path
\* under D that is under no other allowed directory, also when the
\* constructor's loadConfiguration finishes after the removal.
C27_RemovedStaysRemoved ==
  Removed =>
    /\ lastCall.arg \notin Range(allowedDirectories)
    /\ \A p \in PathInputs(MaxSegs) :
         OnlyUnder(Resolve(p), lastCall.arg, allowedDirectories)
           => ~IsAllowed(Resolve(p), allowedDirectories)

(***************************************************************************)
(* Properties of MCPClient                                                 *)
(***************************************************************************)

\* the most recent connect completed and disconnect was not called since
GoodConnection == clientLog.lastConnect = "ok" /\ ~clientLog.disconnected

\* C30: isConnected() is true only when the most recent connect() completed
\* and disconnect() was not called since; after a connect() that throws,
\* callTool fails with 'Client not connected'.
C30_ConnectedOnlyAfterConnect ==
  /\ mcpClient.client => GoodConnection
  /\ (clientLog.op = "isConnected" /\ clientLog.returned) => GoodConnection
  /\ (clientLog.op = "callTool" /\ clientLog.lastConnect = "threw")
       => (clientLog.threw /\ clientLog.text = "Client not connected")

(***************************************************************************)
(* Properties of ensureInitialized                                         *)
(***************************************************************************)

\* C29: each server loads its memory file at most once, and no load assigns
\* the in-memory graph after a tool call has changed it, also when a second
\* call arrives while the first awaits the initialisation.
C29_LoadedAtMostOnce ==
  /\ raceLog.msLoads <= 1
  /\ raceLog.cfLoads <= 1
  /\ ~raceLog.lateLoad

====
